---- MODULE Spec2Model ----
(***************************************************************************)
(* Model of the asynchronous project-processing core of part_finder: the   *)
(* projects table and its status lifecycle (db/crud.py), the queue runner  *)
(* (core/queue.py), the per-project worker and its item pipeline           *)
(* (core/processor.py), the POST / DELETE handlers of the HTTP API         *)
(* (api/projects.py), the shared components table (db/crud.py) and the     *)
(* distributor cache (core/cache_manager.py, core/mouser_api.py).          *)
(***************************************************************************)
EXTENDS Integers, Sequences, FiniteSets, TLC

\* ------------------------------------------------------------------ bounds
MaxProjects == 2
MaxItems == 2
MaxTime == 2
MaxSessions == 2
MaxComponents == 3
MaxAge == 0
MaxRows == 21
MaxLen == 3
MaxPoolItems == 6

\* The value of a nullable TIMESTAMP column that holds NULL; clock readings
\* are 1..MaxTime.
NoTime == 0

ProjectIds == 1..MaxProjects
Times == 1..MaxTime
Sessions == 1..MaxSessions

VARIABLES
    now,            \* the wall clock the handlers read (datetime.now / utcnow)
    projects,       \* projects table: id -> row (status "absent": no row)
    n_items,        \* bom_items table: id -> number of committed BomItems
    matches,        \* bom_item_matches: id -> item -> the item's rows, in insertion order
    api,            \* the API handler in flight (the event loop runs one at a time)
    api_id,         \* the project_id of the handler in flight (0: none)
    pc,             \* position of the queue runner in process_queue
    cur,            \* project_id held by the queue runner (0: none)
    task,           \* item tasks of the project being processed: item -> state
    orchestration_succeeded,  \* what process_project_from_db returned to the runner
    call,           \* the last direct call of a Store or cache function and its result
    components,     \* components table: rows, each with the session holding it uncommitted
    session,        \* database sessions working on the components table
    cache,          \* mouser_api_cache table: rows
    client,         \* DistributorClient calls: caller -> the call in flight or answered
    bom_items       \* bom_items table with its columns: the rows in insertion order

store_vars == <<components, session, cache, client, bom_items>>

vars == <<now, projects, n_items, matches, api, api_id, pc, cur, task,
          orchestration_succeeded, call, store_vars>>

\* ------------------------------------------------------------ data model
Statuses == {"queued", "processing", "finished", "error", "cancelled"}

AbsentRow == [status |-> "absent", created_at |-> NoTime,
              start_time |-> NoTime, end_time |-> NoTime]

NoCall == [op |-> "none"]

\* Manufacturer part numbers the LLM may choose and distributor part numbers.
Mpns == {"M1", "M2"}
PartNumbers == {"X1", "X2"}

\* The value of a nullable component_id column that holds NULL; component ids
\* are positive.
NoComponent == 0

\* An item task of the project being processed: not there, waiting for
\* executor.submit, running, or done with the status it returned (and, for
\* the record, the MPN the LLM chose and whether the distributor's MPN search
\* returned a part).
IdleTask == [state |-> "idle", status |-> "none", chosen_mpn |-> "none",
             final_part_details |-> FALSE]
UnsubmittedTask == [IdleTask EXCEPT !.state = "unsubmitted"]
RunningTask == [IdleTask EXCEPT !.state = "running"]

\* A row of the components table.  tx is 0 for a committed row, s for a row
\* (or a new version of a row) that session s has flushed and not committed,
\* and RolledBack for a row whose insert was rolled back: its id stays used.
RolledBack == 0 - 1

Component(id, mouser_part_number, manufacturer_part_number, tx) ==
    [component_id |-> id, mouser_part_number |-> mouser_part_number,
     manufacturer_part_number |-> manufacturer_part_number, tx |-> tx]

\* Components tables the project lifecycle runs on: none yet, or one
\* component that an earlier request committed.
StoredComponents == {{}, {Component(1, "X1", "M1", 0)}}

\* A session and the call it is in: the arguments (the MPN is kept until the
\* call returns), the component id returned, whether the INSERT failed.
IdleSession == [op |-> "idle", pc |-> "idle", mouser_part_number |-> "none",
                manufacturer_part_number |-> "none", result |-> NoComponent,
                integrity_error |-> FALSE]

\* The cache keys and the payloads the distributor answers with.
SearchTerms == {"T1"}
SearchTypes == {"keyword", "mpn"}
Payloads == {"P1", "P2"}

IdleClient == [pc |-> "idle", search_term |-> "none", search_type |-> "none",
               called_at |-> NoTime, parts |-> "none", requests |-> 0]

\* ---------------------------------------------------------------- Store
\* Variant table in which an errored project may be queued again.
valid_transitions_requeue(s) ==
    CASE s = "queued"     -> {"processing", "cancelled"}
      [] s = "processing" -> {"finished", "error", "cancelled"}
      [] s = "finished"   -> {"cancelled"}
      [] s = "error"      -> {"cancelled", "queued"}
      [] s = "cancelled"  -> {}
      [] OTHER            -> {}

valid_transitions(s) ==
    CASE s = "queued"     -> {"processing", "cancelled"}
      [] s = "processing" -> {"finished", "error", "cancelled"}
      [] s = "finished"   -> {"cancelled"}
      [] s = "error"      -> {"cancelled"}
      [] s = "cancelled"  -> {}
      [] OTHER            -> {}

\* Variant of update_project_status without the validation of the transition.
update_project_status_unchecked(row, new_status, start_time, end_time) ==
    IF row.status = "absent"
    THEN [ok |-> FALSE, row |-> row]
    ELSE [ok |-> TRUE,
          row |-> [row EXCEPT
                     !.status = new_status,
                     !.start_time = IF start_time # NoTime THEN start_time ELSE @,
                     !.end_time = IF end_time # NoTime THEN end_time ELSE @]]

\* update_project_status on the row it finds for project_id (AbsentRow when
\* there is none): the returned bool and the row as committed.
update_project_status(row, new_status, start_time, end_time) ==
    IF row.status = "absent"
    THEN [ok |-> FALSE, row |-> row]
    ELSE IF new_status \notin valid_transitions(row.status)
    THEN [ok |-> FALSE, row |-> row]
    ELSE [ok |-> TRUE,
          row |-> [row EXCEPT
                     !.status = new_status,
                     !.start_time = IF start_time # NoTime THEN start_time ELSE @,
                     !.end_time = IF end_time # NoTime THEN end_time ELSE @]]

QueuedIds == {p \in ProjectIds : projects[p].status = "queued"}

count_queued_projects == Cardinality(QueuedIds)

\* Variant that counts only the strictly older queued projects.
get_queue_info_strict(p) ==
    IF projects[p].status # "queued"
    THEN <<0, 0>>
    ELSE <<Cardinality({q \in QueuedIds :
                          projects[q].created_at < projects[p].created_at}),
           Cardinality(QueuedIds)>>

get_queue_info(p) ==
    IF projects[p].status # "queued"
    THEN <<0, 0>>
    ELSE <<Cardinality({q \in QueuedIds :
                          projects[q].created_at <= projects[p].created_at}),
           Cardinality(QueuedIds)>>

\* Variant without the ORDER BY created_at.
get_next_project_unordered == QueuedIds

\* The rows the ordered query of get_next_project may return first: a queued
\* project with the least created_at (the database picks among equal ones).
get_next_project ==
    {p \in QueuedIds :
        \A q \in QueuedIds : projects[p].created_at <= projects[q].created_at}

\* ------------------------------------------------------------------ Init
Init ==
    /\ now = 1
    /\ projects = [p \in ProjectIds |-> AbsentRow]
    /\ n_items = [p \in ProjectIds |-> 0]
    /\ matches = [p \in ProjectIds |-> [i \in 1..MaxItems |-> <<>>]]
    /\ api = "idle"
    /\ api_id = 0
    /\ pc = "poll"
    /\ cur = 0
    /\ task = [i \in 1..MaxItems |-> IdleTask]
    /\ orchestration_succeeded = "none"
    /\ call = NoCall
    /\ components \in StoredComponents
    /\ session = [s \in Sessions |-> IdleSession]
    /\ cache = {}
    /\ client = [s \in Sessions |-> IdleClient]
    /\ bom_items = <<>>

\* ----------------------------------------------------------------- clock
\* The clock advances between two readings; a reading no row recorded is not
\* observable, so the clock steps only past a reading that some row holds.
Stamped(t) ==
    \/ \E p \in ProjectIds :
          t \in {projects[p].created_at, projects[p].start_time, projects[p].end_time}
    \/ \E r \in cache : r.cached_at = t

Tick ==
    /\ now < MaxTime
    /\ Stamped(now)
    /\ now' = now + 1
    /\ UNCHANGED <<projects, n_items, matches, api, api_id, pc, cur, task,
                   orchestration_succeeded, call>>
    /\ UNCHANGED store_vars

\* ------------------------------------------------------- POST /project
\* create_project up to crud.create_project, which commits the project row
\* on its own; the id is a fresh uuid (the least unused id stands for it).
CreateProject ==
    /\ api = "idle"
    /\ \E p \in ProjectIds :
        /\ projects[p].status = "absent"
        /\ \A q \in ProjectIds : q < p => projects[q].status # "absent"
        /\ projects' = [projects EXCEPT ![p] =
                          [status |-> "queued", created_at |-> now,
                           start_time |-> NoTime, end_time |-> NoTime]]
        /\ api' = "post"
        /\ api_id' = p
    /\ UNCHANGED <<now, n_items, matches, pc, cur, task,
                   orchestration_succeeded, call>>
    /\ UNCHANGED store_vars

\* The number of BomItems in the bom_items table.
RECURSIVE TotalItems(_)
TotalItems(ids) ==
    IF ids = {}
    THEN 0
    ELSE LET p == CHOOSE q \in ids : TRUE
         IN n_items[p] + TotalItems(ids \ {p})

\* The rest of create_project: the BomItems are added and committed in one
\* commit, or the commit fails and they are rolled back (the table holds at
\* most MaxItems BomItems).
CommitItems ==
    /\ api = "post"
    /\ \E n \in 0..(MaxItems - TotalItems(ProjectIds)), committed \in BOOLEAN :
          n_items' = [n_items EXCEPT ![api_id] = IF committed THEN n ELSE 0]
    /\ api' = "idle"
    /\ api_id' = 0
    /\ UNCHANGED <<now, projects, matches, pc, cur, task,
                   orchestration_succeeded, call>>
    /\ UNCHANGED store_vars

\* ---------------------------------------------------- DELETE /project/{id}
\* delete_project up to its status check; a request that is answered 404
\* changes nothing.
DeleteCheck ==
    /\ api = "idle"
    /\ \E p \in ProjectIds :
          /\ projects[p].status \in {"queued", "error"}
          /\ api_id' = p
    /\ api' = "delete"
    /\ UNCHANGED <<now, projects, n_items, matches, pc, cur, task,
                   orchestration_succeeded, call>>
    /\ UNCHANGED store_vars

\* delete_project from its update_project_status call on (the commit of the
\* update may fail, which the handler does not catch).
DeleteUpdate ==
    /\ api = "delete"
    /\ \E committed \in BOOLEAN :
          projects' = [projects EXCEPT ![api_id] =
              IF committed
              THEN update_project_status(@, "cancelled", NoTime, NoTime).row
              ELSE @]
    /\ api' = "idle"
    /\ api_id' = 0
    /\ UNCHANGED <<now, n_items, matches, pc, cur, task,
                   orchestration_succeeded, call>>
    /\ UNCHANGED store_vars

\* ------------------------------------------------------------ QueueRunner
\* process_queue: get_next_project; with no queued project the loop sleeps
\* and polls again.
RunnerPoll ==
    /\ pc = "poll"
    /\ \E p \in get_next_project :
          /\ cur' = p
          /\ pc' = "claim"
    /\ UNCHANGED <<now, projects, n_items, matches, api, api_id, task,
                   orchestration_succeeded, call>>
    /\ UNCHANGED store_vars

\* process_queue, "Update project status to processing": the row is written
\* directly, whatever status it has by now; a failing commit sends the loop
\* to its 60 s backoff.
RunnerClaim ==
    /\ pc = "claim"
    /\ \/ /\ projects' = [projects EXCEPT ![cur] =
                            [@ EXCEPT !.status = "processing", !.start_time = now]]
          /\ pc' = "load"
          /\ UNCHANGED cur
       \/ /\ pc' = "poll"
          /\ cur' = 0
          /\ UNCHANGED projects
    /\ UNCHANGED <<now, n_items, matches, api, api_id, task,
                   orchestration_succeeded, call>>
    /\ UNCHANGED store_vars

\* ----------------------------------------------------------- MatchPipeline
\* What the services answer to one item task: the LLM asked for search terms
\* and for an evaluation, the distributor asked by keyword and by MPN, and
\* whether the Store fails on the component lookup or on the final commit.
\* The keyword searches, one per search term, end in MouserApiError, another
\* exception, no part at all, parts, or parts for the first terms and
\* MouserApiError for a later one ("parts_then_mouser_error").
\* A service that is not asked (an earlier stage ended the pipeline) has no
\* answer to vary: it is listed with its first answer only.
PipelineInputs ==
    {inp \in [terms : {"llm_error", "exception", "empty", "terms"},
              keyword : {"mouser_error", "exception", "empty", "parts",
                         "parts_then_mouser_error"},
              eval : {"llm_error", "exception", "none"} \cup Mpns,
              lookup_fails : BOOLEAN,
              mpn_search : {"mouser_error", "none", "part"},
              save_fails : BOOLEAN] :
        /\ inp.terms # "terms" => inp.keyword = "mouser_error"
        /\ inp.keyword # "parts" => inp.eval = "llm_error"
        /\ inp.eval \notin Mpns => ~inp.lookup_fails
        /\ (inp.eval \notin Mpns \/ inp.lookup_fails) =>
              inp.mpn_search = "mouser_error"}

\* Variant of Step 2 that leaves the status alone when no term was generated.
generate_search_terms_silent(status, inp) ==
    CASE inp.terms = "llm_error" -> "llm_error"
      [] inp.terms = "exception" -> "processing_error"
      [] OTHER                   -> status

\* Step 2, "Generate Search Terms".
generate_search_terms(status, inp) ==
    CASE inp.terms = "llm_error" -> "llm_error"
      [] inp.terms = "exception" -> "processing_error"
      [] inp.terms = "empty"     -> "search_term_failed"
      [] OTHER                   -> status

\* Variant of Step 3 without the "except MouserApiError" clause.
keyword_search_generic(status, inp) ==
    IF status = "pending" /\ inp.terms = "terms"
    THEN CASE inp.keyword \in {"mouser_error", "exception",
                              "parts_then_mouser_error"} -> "processing_error"
           [] inp.keyword = "empty"        -> "no_keyword_results"
           [] OTHER                        -> status
    ELSE status

\* Step 3, "Perform Mouser Keyword Search": runs with status 'pending' and a
\* non-empty list of search terms.
keyword_search(status, inp) ==
    IF status = "pending" /\ inp.terms = "terms"
    THEN CASE inp.keyword \in {"mouser_error", "parts_then_mouser_error"} ->
                                              "mouser_error"
           [] inp.keyword = "exception"    -> "processing_error"
           [] inp.keyword = "empty"        -> "no_keyword_results"
           [] OTHER                        -> status
    ELSE status

\* mouser_results at the end of Step 3 is not empty.
mouser_results(inp) == inp.keyword \in {"parts", "parts_then_mouser_error"}

\* Variant of format_evaluation_prompt that takes the five arguments Step 4
\* passes.
format_evaluation_prompt_five(inp) == "prompt"

\* llm_handler.format_evaluation_prompt as Step 4 calls it: the function has
\* four positional parameters (part_info, project_notes, bom_list,
\* mouser_results) and the call passes five (part_info, project_name,
\* project_description, full_bom_list, mouser_results), which raises
\* TypeError before the LLM is asked.
format_evaluation_prompt(inp) == "TypeError"

\* extract_mpn_from_eval on the LLM's response (inp.eval): the MPN inside the
\* token [ManufacturerPartNumber:...], "none" for a response without it.
extract_mpn_from_eval(inp) ==
    IF inp.eval \in Mpns THEN inp.eval ELSE "none"

\* Variant of Step 4 without the guard on the status.
evaluate_results_unguarded(status, inp) ==
    IF inp.terms = "terms" /\ mouser_results(inp)
    THEN IF format_evaluation_prompt(inp) = "TypeError"
         THEN "processing_error"
         ELSE CASE inp.eval = "llm_error" -> "llm_error"
                [] inp.eval = "exception" -> "processing_error"
                [] extract_mpn_from_eval(inp) = "none" -> "evaluation_failed"
                [] OTHER                  -> status
    ELSE status

\* Step 4, "Evaluate Search Results with LLM": runs with status 'pending' and
\* a non-empty list of candidates.  The TypeError of the prompt is caught by
\* "except Exception".
evaluate_results(status, inp) ==
    IF status = "pending" /\ inp.terms = "terms" /\ mouser_results(inp)
    THEN IF format_evaluation_prompt(inp) = "TypeError"
         THEN "processing_error"
         ELSE CASE inp.eval = "llm_error" -> "llm_error"
                [] inp.eval = "exception" -> "processing_error"
                [] extract_mpn_from_eval(inp) = "none" -> "evaluation_failed"
                [] OTHER                  -> status
    ELSE status

\* The MPN the LLM chose, "none" unless Step 4 ran and extracted one.
chosen_mpn(status, inp) ==
    IF /\ status = "pending" /\ inp.terms = "terms" /\ mouser_results(inp)
       /\ format_evaluation_prompt(inp) # "TypeError"
    THEN extract_mpn_from_eval(inp)
    ELSE "none"

\* get_component_by_mpn: the rows the filtered query may return first.
get_component_by_mpn(comps, mpn) ==
    {c \in comps : c.manufacturer_part_number = mpn}

\* Step 5, "Check DB / Get Final Part Details from Mouser by MPN": runs with
\* status 'pending' and a chosen MPN.  A component found in the Store gives
\* 'matched'.  Otherwise the distributor is asked: its error gives
\* 'mouser_error', no part 'mpn_lookup_failed', and with a part
\* get_or_create_component is called with (db, component_data), which raises
\* TypeError (manufacturer_part_number is missing).  Any exception other than
\* MouserApiError reaches "except SQLAlchemyError", a name the module does not
\* import: the NameError leaves the step (raised).
check_component(status, inp, comps) ==
    LET mpn == chosen_mpn(status, inp)
        found == get_component_by_mpn(comps, mpn)
        step(st, id, raised) == [status |-> st, component_id |-> id,
                                 raised |-> raised]
    IN IF status # "pending" \/ mpn = "none"
       THEN {step(status, NoComponent, FALSE)}
       ELSE IF inp.lookup_fails
       THEN {step(status, NoComponent, TRUE)}
       ELSE IF found # {}
       THEN {step("matched", c.component_id, FALSE) : c \in found}
       ELSE CASE inp.mpn_search = "mouser_error" ->
                     {step("mouser_error", NoComponent, FALSE)}
              [] inp.mpn_search = "none" ->
                     {step("mpn_lookup_failed", NoComponent, FALSE)}
              [] OTHER ->
                     {step(status, NoComponent, TRUE)}

\* Step 6, "Create BomItemMatch record", and the outer "except Exception": a
\* status still 'pending' is stored as 'error'; the row is added and
\* committed; a failing commit reaches "except SQLAlchemyError" (NameError)
\* and so the outer handler, as every exception that left Step 5 does: the
\* session is rolled back and the task returns 'worker_uncaught_exception'.
save_match(st, inp) ==
    IF st.raised \/ inp.save_fails
    THEN [status |-> "worker_uncaught_exception", row |-> FALSE,
          component_id |-> NoComponent]
    ELSE [status |-> IF st.status = "pending" THEN "error" ELSE st.status,
          row |-> TRUE, component_id |-> st.component_id]

\* The calls of the LLM, the distributor and the Store that the task makes,
\* in the order it makes them, s2, s3 and s4 being the status after Steps 2,
\* 3 and 4 and st the outcome of Step 5: each step is entered by its "if" on
\* the status and on what the step before produced.
service_calls(inp, comps, s2, s3, s4, st) ==
    LET mpn == chosen_mpn(s3, inp)
    IN <<"llm_search_terms">>
       \o (IF s2 = "pending" /\ inp.terms = "terms"
           THEN <<"search_mouser_by_keyword">> ELSE <<>>)
       \o (IF /\ s3 = "pending" /\ mouser_results(inp)
              /\ format_evaluation_prompt(inp) # "TypeError"
           THEN <<"llm_evaluation">> ELSE <<>>)
       \o (IF s4 = "pending" /\ mpn # "none"
           THEN <<"get_component_by_mpn">>
                \o (IF ~inp.lookup_fails /\ get_component_by_mpn(comps, mpn) = {}
                    THEN <<"search_mouser_by_mpn">>
                         \o (IF inp.mpn_search = "part"
                             THEN <<"get_or_create_component">> ELSE <<>>)
                    ELSE <<>>)
           ELSE <<>>)
       \o (IF st.raised THEN <<>> ELSE <<"create_bom_item_match">>)

\* _process_single_bom_item: the results the task may end with for the given
\* answers, on the components table as committed, with the status after each
\* of Steps 2 to 5 and the calls made.
process_single_bom_item(inp, comps) ==
    LET s2 == generate_search_terms("pending", inp)
        s3 == keyword_search(s2, inp)
        s4 == evaluate_results(s3, inp)
    IN {[status |-> save_match(st, inp).status,
         row |-> save_match(st, inp).row,
         component_id |-> save_match(st, inp).component_id,
         stages |-> <<s2, s3, s4, st.status>>,
         calls |-> service_calls(inp, comps, s2, s3, s4, st),
         chosen_mpn |-> chosen_mpn(s3, inp),
         final_part_details |->
             /\ chosen_mpn(s3, inp) # "none"
             /\ ~inp.lookup_fails
             /\ get_component_by_mpn(comps, chosen_mpn(s3, inp)) = {}
             /\ inp.mpn_search = "part"] : st \in check_component(s4, inp, comps)}

\* Variant of create_bom_item_match that stores the BomItem's key (a positive
\* number) in the component_id column.
create_bom_item_match_swapped(component_id, match_status) ==
    [component_id |-> 1, match_status |-> match_status]

\* create_bom_item_match: the row added for an item.
create_bom_item_match(component_id, match_status) ==
    [component_id |-> component_id, match_status |-> match_status]

\* ---------------------------------------------------------- ProjectWorker
\* load_project_data_from_db: the project and its items, or (None, []) when
\* the project cannot be read.
load_project_data_from_db(p) ==
    {[project |-> TRUE, bom_items |-> n_items[p]],
     [project |-> FALSE, bom_items |-> 0]}

\* Variant of the worker's status update that passes no end_time.
worker_status_update_no_end_time(row, new_status) ==
    {update_project_status(row, new_status, NoTime, NoTime).row, row}

\* update_project_status in a session of its own, as the worker calls it
\* inside try/except: the committed row, or the row untouched when the call
\* raised.
worker_status_update(row, new_status) ==
    {update_project_status(row, new_status, NoTime, now).row, row}

Return(value) ==
    /\ orchestration_succeeded' = value
    /\ pc' = "returned"
    /\ task' = [i \in 1..MaxItems |-> IdleTask]
    /\ UNCHANGED cur

\* process_project_from_db up to the pool: load_project_data_from_db and the
\* "not project" return; with no BomItems the pool is skipped.
WorkerLoad ==
    /\ pc = "load"
    /\ \E loaded \in load_project_data_from_db(cur) :
          IF ~loaded.project
          THEN Return("false")
          ELSE /\ task' = [i \in 1..MaxItems |->
                             IF i <= loaded.bom_items THEN UnsubmittedTask
                                                      ELSE IdleTask]
               /\ pc' = IF loaded.bom_items = 0 THEN "collect" ELSE "submit"
               /\ UNCHANGED <<cur, orchestration_succeeded>>
    /\ UNCHANGED <<now, projects, n_items, matches, api, api_id, call>>
    /\ UNCHANGED store_vars

Unsubmitted == {i \in 1..MaxItems : task[i].state = "unsubmitted"}
Running == {i \in 1..MaxItems : task[i].state = "running"}

\* executor.submit for the next BomItem, in list order; a pool that cannot
\* start a thread raises out of the submit loop.
WorkerSubmit ==
    /\ pc = "submit"
    /\ Unsubmitted # {}
    /\ LET i == CHOOSE j \in Unsubmitted : \A k \in Unsubmitted : j <= k IN
          \/ /\ task' = [task EXCEPT ![i] = RunningTask]
             /\ pc' = IF Unsubmitted = {i} THEN "collect" ELSE "submit"
          \/ /\ pc' = "abort"
             /\ UNCHANGED task
    /\ UNCHANGED <<now, projects, n_items, matches, api, api_id, cur,
                   orchestration_succeeded, call>>
    /\ UNCHANGED store_vars

\* The components table as committed.
Committed == {c \in components : c.tx = 0}

\* _process_single_bom_item in a pool thread: the pipeline ends in a status
\* and commits the item's BomItemMatch row, or rolls back and returns the
\* status without a row.
ItemTask(i) ==
    /\ pc \in {"submit", "collect", "abort"}
    /\ task[i].state = "running"
    /\ \E inp \in PipelineInputs :
         \E res \in process_single_bom_item(inp, Committed) :
          /\ task' = [task EXCEPT ![i] =
                         [state |-> "done", status |-> res.status,
                          chosen_mpn |-> res.chosen_mpn,
                          final_part_details |-> res.final_part_details]]
          /\ matches' = [matches EXCEPT ![cur][i] =
                           IF res.row
                           THEN Append(@, create_bom_item_match(res.component_id,
                                                                res.status))
                           ELSE @]
    /\ UNCHANGED <<now, projects, n_items, api, api_id, pc, cur,
                   orchestration_succeeded, call>>
    /\ UNCHANGED store_vars

\* process_project_from_db after as_completed has yielded every future (or
\* with no BomItems at all): the final update to 'finished' and "return True".
WorkerFinalize ==
    /\ pc = "collect"
    /\ Running = {}
    /\ \E row \in worker_status_update(projects[cur], "finished") :
          projects' = [projects EXCEPT ![cur] = row]
    /\ Return("true")
    /\ UNCHANGED <<now, n_items, matches, api, api_id, call>>
    /\ UNCHANGED store_vars

\* The "except Exception" block of process_project_from_db, entered once the
\* executor's shutdown has waited for the tasks already submitted: the update
\* to 'error' and "return False".
WorkerSetupError ==
    /\ pc = "abort"
    /\ Running = {}
    /\ \E row \in worker_status_update(projects[cur], "error") :
          projects' = [projects EXCEPT ![cur] = row]
    /\ Return("false")
    /\ UNCHANGED <<now, n_items, matches, api, api_id, call>>
    /\ UNCHANGED store_vars

\* process_queue after the processor returned: the result is logged and the
\* loop starts over.
RunnerLoop ==
    /\ pc = "returned"
    /\ pc' = "poll"
    /\ cur' = 0
    /\ orchestration_succeeded' = "none"
    /\ UNCHANGED <<now, projects, n_items, matches, api, api_id, task, call>>
    /\ UNCHANGED store_vars

Next ==
    \/ Tick
    \/ CreateProject
    \/ CommitItems
    \/ DeleteCheck
    \/ DeleteUpdate
    \/ RunnerPoll
    \/ RunnerClaim
    \/ WorkerLoad
    \/ WorkerSubmit
    \/ \E i \in 1..MaxItems : ItemTask(i)
    \/ WorkerFinalize
    \/ WorkerSetupError
    \/ RunnerLoop

Spec == Init /\ [][Next]_vars

\* ---------------------------------------------------- Store, function by function
\* A projects table as the lifecycle can leave it: any status and creation
\* time per row, the timestamps a row of that status carries.
RowOf(s, c) ==
    [status |-> s, created_at |-> c,
     start_time |-> IF s \in {"processing", "finished", "error"} THEN c ELSE NoTime,
     end_time |-> IF s \in {"finished", "error"} THEN c ELSE NoTime]

StoreRows == {AbsentRow} \cup {RowOf(s, c) : s \in Statuses, c \in Times}

\* Values callers pass as new_status: the five statuses and 'completed', which
\* the docstring of process_project_from_db still names.
StatusArgs == Statuses \cup {"completed"}

StoreInit ==
    /\ now = 1
    /\ projects \in [ProjectIds -> StoreRows]
    /\ n_items = [p \in ProjectIds |-> 0]
    /\ matches = [p \in ProjectIds |-> [i \in 1..MaxItems |-> <<>>]]
    /\ api = "idle"
    /\ api_id = 0
    /\ pc = "poll"
    /\ cur = 0
    /\ task = [i \in 1..MaxItems |-> IdleTask]
    /\ orchestration_succeeded = "none"
    /\ call = NoCall
    /\ components = {}
    /\ session = [s \in Sessions |-> IdleSession]
    /\ cache = {}
    /\ client = [s \in Sessions |-> IdleClient]
    /\ bom_items = <<>>

\* One call of update_project_status with any arguments.
StoreUpdate ==
    /\ call = NoCall
    /\ \E id \in ProjectIds, new_status \in StatusArgs,
          start_time \in {NoTime, MaxTime}, end_time \in {NoTime, MaxTime} :
          LET res == update_project_status(projects[id], new_status,
                                           start_time, end_time) IN
            /\ projects' = [projects EXCEPT ![id] = res.row]
            /\ call' = [op |-> "update_project_status", id |-> id,
                        new_status |-> new_status, before |-> projects[id],
                        ok |-> res.ok]
    /\ UNCHANGED <<now, n_items, matches, api, api_id, pc, cur, task,
                   orchestration_succeeded>>
    /\ UNCHANGED store_vars

\* One call of get_queue_info.
StoreQueueInfo ==
    /\ call = NoCall
    /\ \E id \in ProjectIds :
          call' = [op |-> "get_queue_info", id |-> id,
                   result |-> get_queue_info(id),
                   queue_length |-> count_queued_projects]
    /\ UNCHANGED <<now, projects, n_items, matches, api, api_id, pc, cur, task,
                   orchestration_succeeded>>
    /\ UNCHANGED store_vars

StoreNext == StoreUpdate \/ StoreQueueInfo

SpecStore == StoreInit /\ [][StoreNext]_vars

\* ---------------------------------------------------- ProjectWorker alone
\* process_project_from_db called for a project the runner has just claimed,
\* with any number of BomItems, and nothing else going on.
WorkerInit ==
    /\ now = 1
    /\ projects = [p \in ProjectIds |->
                     IF p = 1 THEN RowOf("processing", 1) ELSE AbsentRow]
    /\ n_items \in {[p \in ProjectIds |-> IF p = 1 THEN n ELSE 0] : n \in 0..MaxItems}
    /\ matches = [p \in ProjectIds |-> [i \in 1..MaxItems |-> <<>>]]
    /\ api = "idle"
    /\ api_id = 0
    /\ pc = "load"
    /\ cur = 1
    /\ task = [i \in 1..MaxItems |-> IdleTask]
    /\ orchestration_succeeded = "none"
    /\ call = NoCall
    /\ components \in StoredComponents
    /\ session = [s \in Sessions |-> IdleSession]
    /\ cache = {}
    /\ client = [s \in Sessions |-> IdleClient]
    /\ bom_items = <<>>

WorkerNext ==
    \/ WorkerLoad
    \/ WorkerSubmit
    \/ \E i \in 1..MaxItems : ItemTask(i)
    \/ WorkerFinalize
    \/ WorkerSetupError

SpecWorker == WorkerInit /\ [][WorkerNext]_vars

\* process_project_from_db called a second time for the project it has
\* returned from: the function checks neither the project's status nor the
\* rows its items already have.
WorkerReinvoke ==
    /\ pc = "returned"
    /\ call = NoCall
    /\ pc' = "load"
    /\ orchestration_succeeded' = "none"
    /\ call' = [op |-> "process_project_from_db", project_id |-> cur]
    /\ UNCHANGED <<now, projects, n_items, matches, api, api_id, cur, task>>
    /\ UNCHANGED store_vars

RerunNext ==
    \/ WorkerLoad
    \/ WorkerSubmit
    \/ \E i \in 1..MaxItems : ItemTask(i)
    \/ WorkerFinalize
    \/ WorkerSetupError
    \/ WorkerReinvoke

SpecRerun == WorkerInit /\ [][RerunNext]_vars

\* ------------------------------------------------------- components table
\* The initial state of the components table, of the cache and of the
\* sessions working on them; the project lifecycle stands still.
TablesInit ==
    /\ now = 1
    /\ projects = [p \in ProjectIds |-> AbsentRow]
    /\ n_items = [p \in ProjectIds |-> 0]
    /\ matches = [p \in ProjectIds |-> [i \in 1..MaxItems |-> <<>>]]
    /\ api = "idle"
    /\ api_id = 0
    /\ pc = "poll"
    /\ cur = 0
    /\ task = [i \in 1..MaxItems |-> IdleTask]
    /\ orchestration_succeeded = "none"
    /\ call = NoCall
    /\ components = {}
    /\ session = [s \in Sessions |-> IdleSession]
    /\ cache = {}
    /\ client = [s \in Sessions |-> IdleClient]
    /\ bom_items = <<>>

\* What session s has flushed and not committed, and the rows it reads: the
\* committed ones, with its own version of those it has changed, and its own.
Pending(s) == {c \in components : c.tx = s}

Visible(s) ==
    Pending(s) \cup
    {c \in Committed : \A d \in Pending(s) : d.component_id # c.component_id}

\* The primary key the sequence hands out next: ids are not reused.
NextComponentId == Cardinality({c.component_id : c \in components}) + 1

\* The lookup of get_or_create_component: by Mouser part number first, by
\* MPN if that finds nothing; .first() returns any one of the rows found.
find_component(s, mouser_part_number, manufacturer_part_number) ==
    LET by_pn == {c \in Visible(s) : c.mouser_part_number = mouser_part_number}
        by_mpn == {c \in Visible(s) :
                      c.manufacturer_part_number = manufacturer_part_number}
    IN IF by_pn # {} THEN by_pn ELSE by_mpn

\* Variant of the unique constraint that lets every insert through.
unique_violation_off(s, mouser_part_number) == FALSE

\* The unique constraint on components.mouser_part_number at an INSERT of
\* session s: violated by a committed row with the same part number...
unique_violation(s, mouser_part_number) ==
    \E c \in Committed : c.mouser_part_number = mouser_part_number

\* ... while the INSERT waits for another session's uncommitted row with the
\* same part number to be committed or rolled back.
insert_waits(s, mouser_part_number) ==
    \E c \in components :
        /\ c.tx \notin {0, s, RolledBack}
        /\ c.mouser_part_number = mouser_part_number

\* db.rollback(): the rows session s inserted are gone (their ids stay used),
\* its changes to committed rows are dropped.
rollback(s) ==
    (components \ Pending(s)) \cup
    {Component(c.component_id, "none", "none", RolledBack) :
        c \in {e \in Pending(s) :
                 \A d \in Committed : d.component_id # e.component_id}}

\* db.commit(): the rows of session s replace the committed versions.
commit(s) ==
    {c \in components :
        /\ c.tx # s
        /\ c.tx = 0 => \A d \in Pending(s) : d.component_id # c.component_id}
    \cup {[c EXCEPT !.tx = 0] : c \in Pending(s)}

\* get_or_create_component up to "if component: return component": the call
\* returns a row it found, or goes on to create one.
GetOrCreateComponent(s) ==
    /\ session[s].pc = "idle"
    /\ \E pn \in PartNumbers, mpn \in Mpns :
          LET found == find_component(s, pn, mpn)
              called == [IdleSession EXCEPT !.op = "get_or_create_component",
                                            !.mouser_part_number = pn,
                                            !.manufacturer_part_number = mpn]
          IN IF found # {}
             THEN \E c \in found :
                     session' = [session EXCEPT ![s] =
                                   [called EXCEPT !.pc = "returned",
                                                  !.manufacturer_part_number = "none",
                                                  !.result = c.component_id]]
             ELSE session' = [session EXCEPT ![s] = [called EXCEPT !.pc = "flush"]]
    /\ UNCHANGED <<now, projects, n_items, matches, api, api_id, pc, cur, task,
                   orchestration_succeeded, call, components, cache, client,
                   bom_items>>

\* The enrichment of one potential match in get_project, for an MPN no
\* component has and for which the distributor returned a part: an existing
\* component with the part's Mouser part number is updated in place (the MPN
\* becomes the potential match's), otherwise a new one is created.
EnrichPotentialMatch(s) ==
    /\ session[s].pc = "idle"
    /\ \E pn \in PartNumbers, mpn \in Mpns :
          LET existing == {c \in Visible(s) : c.mouser_part_number = pn}
              called == [IdleSession EXCEPT !.op = "get_project",
                                            !.mouser_part_number = pn,
                                            !.manufacturer_part_number = mpn]
          IN /\ get_component_by_mpn(Visible(s), mpn) = {}
             /\ IF existing # {}
                THEN \E c \in existing :
                        /\ \A d \in components :
                              d.component_id = c.component_id =>
                                 d.tx \in {0, s, RolledBack}
                        /\ components' =
                              (components \ {d \in Pending(s) :
                                                d.component_id = c.component_id})
                              \cup {[c EXCEPT !.manufacturer_part_number = mpn,
                                              !.tx = s]}
                        /\ session' = [session EXCEPT ![s] =
                                         [called EXCEPT !.pc = "returned",
                                                        !.manufacturer_part_number = "none",
                                                        !.result = c.component_id]]
                ELSE /\ session' = [session EXCEPT ![s] =
                                      [called EXCEPT !.pc = "flush"]]
                     /\ UNCHANGED components
    /\ UNCHANGED <<now, projects, n_items, matches, api, api_id, pc, cur, task,
                   orchestration_succeeded, call, cache, client,
                   bom_items>>

\* db.add and db.flush of the new Component.  A row with the same Mouser
\* part number committed meanwhile raises IntegrityError: get_or_create_component
\* rolls back and looks the component up again; in get_project the handler's
\* "except Exception" logs it and goes on without a component.
FlushComponent(s) ==
    /\ session[s].pc = "flush"
    /\ ~insert_waits(s, session[s].mouser_part_number)
    /\ IF unique_violation(s, session[s].mouser_part_number)
       THEN /\ components' = rollback(s)
            /\ \E id \in IF session[s].op = "get_project"
                         THEN {NoComponent}
                         ELSE LET again == {c.component_id :
                                    c \in {d \in Committed :
                                       d.mouser_part_number =
                                          session[s].mouser_part_number}}
                              IN IF again = {} THEN {NoComponent} ELSE again :
                  session' = [session EXCEPT ![s].pc = "returned",
                                             ![s].manufacturer_part_number = "none",
                                             ![s].result = id,
                                             ![s].integrity_error = TRUE]
       ELSE /\ NextComponentId <= MaxComponents
            /\ components' = components \cup
                  {Component(NextComponentId, session[s].mouser_part_number,
                             session[s].manufacturer_part_number, s)}
            /\ session' = [session EXCEPT ![s].pc = "returned",
                                          ![s].manufacturer_part_number = "none",
                                          ![s].result = NextComponentId]
    /\ UNCHANGED <<now, projects, n_items, matches, api, api_id, pc, cur, task,
                   orchestration_succeeded, call, cache, client,
                   bom_items>>

\* The caller's db.commit() after the call returned: the item task's commit
\* of its match row, or in get_project the commit that caching the next
\* distributor response makes on the handler's session.
SessionCommit(s) ==
    /\ session[s].pc = "returned"
    /\ components' = commit(s)
    /\ session' = [session EXCEPT ![s].pc = "committed"]
    /\ UNCHANGED <<now, projects, n_items, matches, api, api_id, pc, cur, task,
                   orchestration_succeeded, call, cache, client,
                   bom_items>>

\* The session ends: closed after its commit, or rolled back without one
\* (the item task's rollback, get_db closing the handler's session).
SessionClose(s) ==
    /\ session[s].pc \in {"flush", "returned", "committed"}
    /\ components' = rollback(s)
    /\ session' = [session EXCEPT ![s] = IdleSession]
    /\ UNCHANGED <<now, projects, n_items, matches, api, api_id, pc, cur, task,
                   orchestration_succeeded, call, cache, client,
                   bom_items>>

ComponentNext ==
    \/ \E s \in Sessions : GetOrCreateComponent(s)
    \/ \E s \in Sessions : EnrichPotentialMatch(s)
    \/ \E s \in Sessions : FlushComponent(s)
    \/ \E s \in Sessions : SessionCommit(s)
    \/ \E s \in Sessions : SessionClose(s)

SpecComponent == TablesInit /\ [][ComponentNext]_vars

\* ------------------------------------------------------------------ cache
\* The rows of the table for one (search_term, search_type).
CacheRows(rows, search_term, search_type) ==
    {r \in rows : r.search_term = search_term /\ r.search_type = search_type}

\* Variant of get_cached_response without the filter on cached_at.
get_cached_response_any_age(rows, search_term, search_type, max_age_seconds, t) ==
    LET recent == CacheRows(rows, search_term, search_type)
        first == {r \in recent : \A q \in recent : q.cached_at <= r.cached_at}
    IN IF first = {} THEN {"none"} ELSE {r.response_data : r \in first}

\* get_cached_response at clock reading t: the response_data of the first row
\* of the query ordered by cached_at descending, "none" when it has no row.
get_cached_response(rows, search_term, search_type, max_age_seconds, t) ==
    LET recent == {r \in CacheRows(rows, search_term, search_type) :
                      r.cached_at >= t - max_age_seconds}
        first == {r \in recent : \A q \in recent : q.cached_at <= r.cached_at}
    IN IF first = {} THEN {"none"} ELSE {r.response_data : r \in first}

\* cache_response at clock reading t: the table after the call.  The row is
\* inserted and committed; where the unique index on (search_term,
\* search_type) already holds a row for the pair the INSERT fails, the error
\* is logged and the session rolled back.
cache_response(rows, search_term, search_type, response_data, t) ==
    IF CacheRows(rows, search_term, search_type) # {}
    THEN rows
    ELSE rows \cup {[search_term |-> search_term, search_type |-> search_type,
                     response_data |-> response_data, cached_at |-> t]}

\* One direct call of get_cached_response.
CacheGet ==
    /\ \E search_term \in SearchTerms, search_type \in SearchTypes,
          max_age_seconds \in 0..MaxAge :
         \E result \in get_cached_response(cache, search_term, search_type,
                                           max_age_seconds, now) :
            call' = [op |-> "get_cached_response", search_term |-> search_term,
                     search_type |-> search_type,
                     max_age_seconds |-> max_age_seconds,
                     at |-> now, result |-> result]
    /\ UNCHANGED <<now, projects, n_items, matches, api, api_id, pc, cur, task,
                   orchestration_succeeded, store_vars>>

\* One direct call of cache_response.
CachePut ==
    /\ \E search_term \in SearchTerms, search_type \in SearchTypes,
          response_data \in Payloads :
          /\ cache' = cache_response(cache, search_term, search_type,
                                     response_data, now)
          /\ call' = [op |-> "cache_response", search_term |-> search_term,
                      search_type |-> search_type,
                      response_data |-> response_data, at |-> now]
    /\ UNCHANGED <<now, projects, n_items, matches, api, api_id, pc, cur, task,
                   orchestration_succeeded, components, session, client,
                   bom_items>>

\* search_mouser_by_keyword / search_mouser_by_mpn up to the cache check (with
\* the default max_age_seconds, MaxAge on the model's clock): a cached
\* response answers the call, otherwise the distributor is asked.
ClientCall(s) ==
    /\ client[s].pc = "idle"
    /\ \E search_term \in SearchTerms, search_type \in SearchTypes :
         \E cached \in get_cached_response(cache, search_term, search_type,
                                           MaxAge, now) :
            client' = [client EXCEPT ![s] =
                [pc |-> IF cached # "none" THEN "answered" ELSE "request",
                 search_term |-> search_term, search_type |-> search_type,
                 called_at |-> now, parts |-> cached, requests |-> 0]]
    /\ UNCHANGED <<now, projects, n_items, matches, api, api_id, pc, cur, task,
                   orchestration_succeeded, call, components, session, cache,
                   bom_items>>

\* The rest of the call: _make_mouser_request, then the response is cached
\* and its parts are returned; or the request fails for good and
\* MouserApiError is raised, nothing cached.
ClientRequest(s) ==
    /\ client[s].pc = "request"
    /\ \/ \E response_data \in Payloads :
            /\ cache' = cache_response(cache, client[s].search_term,
                                       client[s].search_type, response_data, now)
            /\ call' = [op |-> "cache_response",
                        search_term |-> client[s].search_term,
                        search_type |-> client[s].search_type,
                        response_data |-> response_data, at |-> now]
            /\ client' = [client EXCEPT ![s].pc = "answered",
                                        ![s].parts = response_data,
                                        ![s].requests = 1]
       \/ /\ client' = [client EXCEPT ![s].pc = "raised", ![s].requests = 1]
          /\ UNCHANGED <<cache, call>>
    /\ UNCHANGED <<now, projects, n_items, matches, api, api_id, pc, cur, task,
                   orchestration_succeeded, components, session,
                   bom_items>>

\* The caller is done with the answer.
ClientReturn(s) ==
    /\ client[s].pc \in {"answered", "raised"}
    /\ client' = [client EXCEPT ![s] = IdleClient]
    /\ UNCHANGED <<now, projects, n_items, matches, api, api_id, pc, cur, task,
                   orchestration_succeeded, call, components, session, cache,
                   bom_items>>

CacheNext ==
    \/ Tick
    \/ CacheGet
    \/ CachePut
    \/ \E s \in Sessions : ClientCall(s)
    \/ \E s \in Sessions : ClientRequest(s)
    \/ \E s \in Sessions : ClientReturn(s)

SpecCache == TablesInit /\ [][CacheNext]_vars

\* ------------------------------------------------------ DistributorClient
\* MAX_RETRIES of mouser_api.py.
MAX_RETRIES == 3

\* What the distributor does with one request: HTTP 200 with a response, HTTP
\* 200 with a non-empty Errors block, HTTP 200 with a body that is not JSON,
\* HTTP 429, another status code, or no response (RequestException).
Answers == {"200", "200_errors", "200_invalid_json", "429", "500",
            "transport_error"}

Retriable == {"429", "transport_error"}

\* Variant of the loop body that goes on to the next attempt after any status
\* code other than 200.
after_answer_no_break(answer) ==
    CASE answer = "200"                                -> "return"
      [] answer \in {"200_errors", "200_invalid_json"} -> "raise"
      [] OTHER                                         -> "continue"

\* The body of the retry loop on one answer: a good response is returned, an
\* Errors block or an undecodable body raises MouserApiError at once, 429 and
\* a RequestException go on to the next attempt, any other status code
\* breaks the loop.
after_answer(answer) ==
    CASE answer = "200"                                -> "return"
      [] answer \in {"200_errors", "200_invalid_json"} -> "raise"
      [] answer \in Retriable                          -> "continue"
      [] OTHER                                         -> "break"

\* _make_mouser_request from its attempt-th request on (attempts count from
\* 1), answers[k] being the distributor's answer to the k-th request: the
\* loop over range(MAX_RETRIES + 1).  It returns the response or raises
\* MouserApiError, after `requests` requests.
RECURSIVE make_mouser_request(_, _)
make_mouser_request(answers, attempt) ==
    IF attempt > MAX_RETRIES + 1
    THEN [outcome |-> "raised", requests |-> MAX_RETRIES + 1]
    ELSE CASE after_answer(answers[attempt]) = "return" ->
                 [outcome |-> "response", requests |-> attempt]
           [] after_answer(answers[attempt]) = "continue" ->
                 make_mouser_request(answers, attempt + 1)
           [] OTHER ->
                 [outcome |-> "raised", requests |-> attempt]

\* The inputs of one search_mouser_by_keyword / search_mouser_by_mpn call:
\* whether MOUSER_API_KEY is set, whether the cache query and the cache
\* INSERT fail, the distributor's answers and the response of its 200.  The
\* answers to requests the loop never sends are fixed to the first one.
SearchInputs ==
    {inp \in [search_term : SearchTerms, search_type : SearchTypes,
              api_key : BOOLEAN, read_fails : BOOLEAN, write_fails : BOOLEAN,
              answers : [1..(MAX_RETRIES + 1) -> Answers],
              response_data : Payloads] :
        LET sent == make_mouser_request(inp.answers, 1)
        IN /\ \A k \in 1..(MAX_RETRIES + 1) :
                 k > sent.requests => inp.answers[k] = inp.answers[1]
           /\ sent.outcome # "response" =>
                 (~inp.write_fails /\ inp.response_data = "P1")
           /\ ~inp.api_key =>
                 /\ \A k \in 1..(MAX_RETRIES + 1) : inp.answers[k] = "200"
                 /\ ~inp.write_fails /\ inp.response_data = "P1"}

\* Variant of the cache check of a search in which a failing read ends the
\* search.
cache_check_strict(rows, inp, t) ==
    IF inp.read_fails
    THEN {"raised"}
    ELSE get_cached_response(rows, inp.search_term, inp.search_type, MaxAge, t)

\* The cache check of a search: get_cached_response with the default
\* max_age_seconds (MaxAge on the model's clock); a failing query is logged
\* and gives None.
cache_check(rows, inp, t) ==
    IF inp.read_fails
    THEN {"none"}
    ELSE get_cached_response(rows, inp.search_term, inp.search_type, MaxAge, t)

\* Variant of the cache write of a search in which a failing write loses the
\* response.
cache_write_strict(rows, inp, t) ==
    IF inp.write_fails
    THEN [rows |-> rows, response_data |-> "none"]
    ELSE [rows |-> cache_response(rows, inp.search_term, inp.search_type,
                                  inp.response_data, t),
          response_data |-> inp.response_data]

\* The cache write of a search: cache_response; a failing INSERT or commit is
\* logged and rolled back, and the response is parsed all the same.
cache_write(rows, inp, t) ==
    IF inp.write_fails
    THEN [rows |-> rows, response_data |-> inp.response_data]
    ELSE [rows |-> cache_response(rows, inp.search_term, inp.search_type,
                                  inp.response_data, t),
          response_data |-> inp.response_data]

\* Variant of the search that goes on to the cache write after a failed
\* request.
request_failed_ignored(sent) == FALSE

\* _make_mouser_request raised MouserApiError, which the search lets through:
\* the lines after the request, the cache write among them, are not reached.
request_failed(sent) == sent.outcome = "raised"

\* search_mouser_by_keyword / search_mouser_by_mpn at clock reading t: what
\* the call may return (the parts of a response, or MouserApiError raised),
\* with the number of requests sent and the cache table after the call.
search_mouser(rows, inp, t) ==
    LET found(outcome, parts, hit, requests, after) ==
            [outcome |-> outcome, parts |-> parts, hit |-> hit,
             requests |-> requests, rows |-> after]
        sent == make_mouser_request(inp.answers, 1)
        written == cache_write(rows, inp, t)
    IN {IF cached = "raised"
        THEN found("raised", "none", FALSE, 0, rows)
        ELSE IF cached # "none"
        THEN found("parts", cached, TRUE, 0, rows)
        ELSE IF ~inp.api_key
        THEN found("raised", "none", FALSE, 0, rows)
        ELSE IF request_failed(sent)
        THEN found("raised", "none", FALSE, sent.requests, rows)
        ELSE IF written.response_data = "none"
        THEN found("raised", "none", FALSE, sent.requests, written.rows)
        ELSE found("parts", written.response_data, FALSE, sent.requests,
                   written.rows) : cached \in cache_check(rows, inp, t)}

\* One search call by a caller outside the pipeline.
SearchMouser ==
    /\ call = NoCall
    /\ \E inp \in SearchInputs :
         \E res \in search_mouser(cache, inp, now) :
            /\ cache' = res.rows
            /\ call' = [op |-> "search_mouser", inp |-> inp, at |-> now,
                        outcome |-> res.outcome, parts |-> res.parts,
                        hit |-> res.hit, requests |-> res.requests,
                        wrote |-> res.rows # cache]
    /\ UNCHANGED <<now, projects, n_items, matches, api, api_id, pc, cur, task,
                   orchestration_succeeded, components, session, client,
                   bom_items>>

\* What Step 3 makes of its keyword searches: MouserApiError, or the
\* deduplicated parts, which a response may leave empty.
keyword_results(res) ==
    IF res.outcome = "raised" THEN {"mouser_error"} ELSE {"parts", "empty"}

\* One item task seen with its keyword search: Step 2 gave a term, Step 3
\* calls search_mouser_by_keyword for it, and the pipeline goes on with what
\* the search returned.
ItemSearch ==
    /\ call = NoCall
    /\ \E inp \in SearchInputs :
         /\ inp.search_type = "keyword"
         /\ \E res \in search_mouser(cache, inp, now) :
              \E item \in PipelineInputs :
                 /\ item.terms = "terms"
                 /\ item.keyword \in keyword_results(res)
                 /\ \E end \in process_single_bom_item(item, Committed) :
                      /\ cache' = res.rows
                      /\ call' = [op |-> "process_single_bom_item",
                                  answers |-> inp.answers,
                                  hit |-> res.hit, requests |-> res.requests,
                                  outcome |-> res.outcome,
                                  wrote |-> res.rows # cache,
                                  save_fails |-> item.save_fails,
                                  item |-> item,
                                  chosen_mpn |-> end.chosen_mpn,
                                  status |-> end.status, row |-> end.row,
                                  component_id |-> end.component_id]
    /\ UNCHANGED <<now, projects, n_items, matches, api, api_id, pc, cur, task,
                   orchestration_succeeded, components, session, client,
                   bom_items>>

\* The caller has taken the result of its call.
CallDone ==
    /\ call # NoCall
    /\ call' = NoCall
    /\ UNCHANGED <<now, projects, n_items, matches, api, api_id, pc, cur, task,
                   orchestration_succeeded, store_vars>>

ClientNext ==
    \/ Tick
    \/ SearchMouser
    \/ ItemSearch
    \/ CallDone

\* The tables as a search finds them: an empty cache, and a components table
\* that is empty or holds a component.
ClientInit ==
    /\ now = 1
    /\ projects = [p \in ProjectIds |-> AbsentRow]
    /\ n_items = [p \in ProjectIds |-> 0]
    /\ matches = [p \in ProjectIds |-> [i \in 1..MaxItems |-> <<>>]]
    /\ api = "idle"
    /\ api_id = 0
    /\ pc = "poll"
    /\ cur = 0
    /\ task = [i \in 1..MaxItems |-> IdleTask]
    /\ orchestration_succeeded = "none"
    /\ call = NoCall
    /\ components \in StoredComponents
    /\ session = [s \in Sessions |-> IdleSession]
    /\ cache = {}
    /\ client = [s \in Sessions |-> IdleClient]
    /\ bom_items = <<>>

SpecClient == ClientInit /\ [][ClientNext]_vars

\* -------------------------------------------------------------- ingestion
\* The cap of create_project on the BOM ("> 20", "[:20]").
MaxBomItems == 20

\* The rows of a BOM as create_project processes them (the LLM's reformatted
\* list when it is a list, the raw list otherwise).  A row is a JSON value: a
\* dictionary, each key holding a value or "absent", or something else.  qty
\* is an integer ("1", "5"), a numeric string ("'3'") or another string.
RowKinds == {"valid", "valid_full", "qty_numeric_string", "no_qty",
             "no_description", "qty_string", "not_dict"}

Description(i) == "D" \o ToString(i)

raw_row(i, kind) ==
    [dict |-> kind # "not_dict",
     qty |-> CASE kind \in {"no_qty", "not_dict"}  -> "absent"
               [] kind = "qty_numeric_string"      -> "'3'"
               [] kind = "qty_string"              -> "'abc'"
               [] kind = "no_description"          -> "5"
               [] OTHER                            -> "1",
     description |-> IF kind \in {"no_description", "not_dict"}
                     THEN "absent" ELSE Description(i),
     package |-> IF kind \in {"valid_full", "no_description"}
                 THEN "0805" ELSE "absent",
     possible_mpn |-> IF kind \in {"valid_full", "no_qty"}
                      THEN "M1" ELSE "absent",
     notes |-> IF kind \in {"valid_full", "qty_string"}
               THEN "N1" ELSE "absent"]

\* A BOM of n rows: the row at position `special` is of the given kind, the
\* others are valid rows, every second one with all its fields.
BomInputs ==
    {bom \in [n : 0..MaxRows, special : 0..MaxRows, kind : RowKinds] :
        /\ bom.special \in {0, 1, bom.n}
        /\ bom.special = 0 => bom.kind = "valid"
        /\ bom.n = 0 => bom.special = 0}

components_to_process(bom) ==
    [i \in 1..bom.n |->
        IF i = bom.special THEN raw_row(i, bom.kind)
        ELSE raw_row(i, IF i % 2 = 1 THEN "valid_full" ELSE "valid")]

\* json.dumps of a row, as the list of its values.
dumps(row) ==
    <<row.qty, row.description, row.package, row.possible_mpn, row.notes>>

\* isinstance(qty, int), and the integer pydantic makes of a qty it accepts.
is_int(qty) == qty \in {"1", "5"}

to_int(qty) == IF qty = "'3'" THEN "3" ELSE qty

\* An Optional[str] field of a validated row: None for a missing key.
optional(value) == IF value = "absent" THEN "null" ELSE value

\* BOMComponent.model_validate succeeds: qty is an integer or converts to
\* one, description is a string; the other fields are optional.
validates(row) ==
    /\ row.dict
    /\ row.qty \in {"1", "5", "'3'"}
    /\ row.description # "absent"

model_validate(row) ==
    [qty |-> to_int(row.qty), description |-> <<row.description>>,
     package |-> optional(row.package),
     possible_mpn |-> optional(row.possible_mpn),
     notes |-> optional(row.notes)]

\* Variant of the fallback row that always takes qty 1.
fallback_component_qty_one(row) ==
    [qty |-> "1",
     description |-> <<"Original Data (validation failed):">> \o dumps(row),
     package |-> IF row.package = "absent" THEN "unknown" ELSE row.package,
     possible_mpn |-> optional(row.possible_mpn),
     notes |-> optional(row.notes)]

\* The fallback row of a dictionary that failed validation.
fallback_component(row) ==
    [qty |-> IF is_int(row.qty) THEN row.qty ELSE "1",
     description |-> <<"Original Data (validation failed):">> \o dumps(row),
     package |-> IF row.package = "absent" THEN "unknown" ELSE row.package,
     possible_mpn |-> optional(row.possible_mpn),
     notes |-> optional(row.notes)]

\* The fallback row of an item that is not a dictionary.
fallback_not_dict(row) ==
    [qty |-> "1",
     description |-> <<"Invalid component data (not a dictionary):">> \o dumps(row),
     package |-> "unknown", possible_mpn |-> "null", notes |-> "null"]

\* The loop over components_to_process: the processed row of each position
\* and the positions that got a warning.
process_component(row) ==
    IF ~row.dict THEN fallback_not_dict(row)
    ELSE IF validates(row) THEN model_validate(row)
    ELSE fallback_component(row)

processed_components(rows) ==
    [i \in 1..Len(rows) |-> process_component(rows[i])]

errors(rows) == {i \in 1..Len(rows) : ~validates(rows[i])}

\* Variant of the truncation that cuts from MaxBomItems rows on.
truncate_early(processed) ==
    IF Len(processed) >= MaxBomItems
    THEN [components |-> SubSeq(processed, 1, MaxBomItems - 1),
          truncation_info |-> TRUE]
    ELSE [components |-> processed, truncation_info |-> FALSE]

\* "Truncate to 20 components if needed (after processing)".
truncate(processed) ==
    IF Len(processed) > MaxBomItems
    THEN [components |-> SubSeq(processed, 1, MaxBomItems),
          truncation_info |-> TRUE]
    ELSE [components |-> processed, truncation_info |-> FALSE]

\* crud.create_bom_item: the row added for a processed component; the
\* primary key is the next of the table's sequence.
create_bom_item(item, project_id, bom_item_id) ==
    [bom_item_id |-> bom_item_id, project_id |-> project_id,
     quantity |-> item.qty, description |-> item.description,
     package |-> item.package, notes |-> item.notes]

\* The rows of a project in the table, in insertion order.
RECURSIVE ItemsInOrder(_, _)
ItemsInOrder(table, project_id) ==
    IF table = <<>> THEN <<>>
    ELSE IF Head(table).project_id = project_id
    THEN <<Head(table)>> \o ItemsInOrder(Tail(table), project_id)
    ELSE ItemsInOrder(Tail(table), project_id)

\* crud.get_bom_items_for_project: the query has no ORDER BY, so the rows come
\* in the order of the scan, which may start at any row of the table and wrap
\* around.
get_bom_items_for_project(table, project_id) ==
    LET rows == ItemsInOrder(table, project_id)
        n == Len(rows)
    IN IF n = 0 THEN {<<>>}
       ELSE {SubSeq(rows, k, n) \o SubSeq(rows, 1, k - 1) : k \in 1..n}

\* get_project for a queued project: the BOMComponent rebuilt from a row.
bom_component(db_item) ==
    [qty |-> db_item.quantity, description |-> db_item.description,
     package |-> db_item.package, possible_mpn |-> db_item.notes,
     notes |-> "null"]

\* The projects whose BOMs share the bom_items table.
IngestIds == {1, 2}

\* POST /project as a whole: the rows are processed and truncated,
\* crud.create_project commits the project row, the BomItems are added and
\* the final commit stores them, or fails and rolls them back (HTTP 500).
\* The table holds at most MaxRows rows, and a BOM that follows another
\* project's rows has at most MaxItems rows, all of them valid.
Ingest ==
    /\ call = NoCall
    /\ \E p \in IngestIds, bom \in BomInputs, committed \in BOOLEAN :
        /\ projects[p].status = "absent"
        /\ \A q \in IngestIds : q < p => projects[q].status # "absent"
        /\ bom_items # <<>> => (bom.special = 0 /\ bom.n <= MaxItems)
        /\ LET rows == components_to_process(bom)
               kept == truncate(processed_components(rows))
               n == Len(kept.components)
               new == [i \in 1..n |->
                         create_bom_item(kept.components[i], p,
                                         Len(bom_items) + i)]
           IN /\ Len(bom_items) + n <= MaxRows
              /\ projects' = [projects EXCEPT ![p] =
                                [status |-> "queued", created_at |-> now,
                                 start_time |-> NoTime, end_time |-> NoTime]]
              /\ bom_items' = IF committed THEN bom_items \o new ELSE bom_items
              /\ call' = [op |-> "create_project", project_id |-> p,
                          bom |-> bom,
                          processed_components |-> kept.components,
                          truncation_info |-> kept.truncation_info,
                          processing_warnings |-> errors(rows),
                          committed |-> committed]
    /\ UNCHANGED <<now, n_items, matches, api, api_id, pc, cur, task,
                   orchestration_succeeded, components, session, cache, client>>

\* GET /project/{id} of the project just ingested, while it is queued.
GetProject ==
    /\ call.op = "create_project"
    /\ call.committed
    /\ projects[call.project_id].status = "queued"
    /\ \E db_items \in get_bom_items_for_project(bom_items, call.project_id) :
          call' = [op |-> "get_project", project_id |-> call.project_id,
                   processed_components |-> call.processed_components,
                   components |-> [i \in 1..Len(db_items) |->
                                      bom_component(db_items[i])]]
    /\ UNCHANGED <<now, projects, n_items, matches, api, api_id, pc, cur, task,
                   orchestration_succeeded, store_vars>>

\* One direct call of get_bom_items_for_project.
GetBomItems ==
    /\ call = NoCall
    /\ \E p \in IngestIds :
        /\ projects[p].status # "absent"
        /\ \E db_items \in get_bom_items_for_project(bom_items, p) :
              call' = [op |-> "get_bom_items_for_project", project_id |-> p,
                       bom_item_ids |-> [i \in 1..Len(db_items) |->
                                            db_items[i].bom_item_id]]
    /\ UNCHANGED <<now, projects, n_items, matches, api, api_id, pc, cur, task,
                   orchestration_succeeded, store_vars>>

IngestNext ==
    \/ Ingest
    \/ GetProject
    \/ GetBomItems
    \/ CallDone

SpecIngest == TablesInit /\ [][IngestNext]_vars

\* ----------------------------------------------------------- search terms
\* The characters of an LLM response: letters, the blank and the comma.
Chars == {"a", "b", " ", ","}

\* The characters str.strip() removes.
Whitespace == {" "}

\* What get_llm_response returns to Step 2: None, or a string of at most
\* MaxLen characters.
LlmResponses ==
    {[present |-> FALSE, text |-> <<>>]} \cup
    {[present |-> TRUE, text |-> t] :
        t \in UNION {[1..n -> Chars] : n \in 0..MaxLen}}

\* str.split(','): the pieces between the commas, one more than there are
\* commas.
RECURSIVE split(_)
split(text) ==
    IF text = <<>>
    THEN << <<>> >>
    ELSE LET rest == split(Tail(text))
         IN IF Head(text) = ","
            THEN << <<>> >> \o rest
            ELSE << <<Head(text)>> \o Head(rest) >> \o Tail(rest)

RECURSIVE lstrip(_)
lstrip(term) ==
    IF term # <<>> /\ Head(term) \in Whitespace THEN lstrip(Tail(term)) ELSE term

RECURSIVE rstrip(_)
rstrip(term) ==
    IF term # <<>> /\ term[Len(term)] \in Whitespace
    THEN rstrip(SubSeq(term, 1, Len(term) - 1))
    ELSE term

\* str.strip().
strip(term) == rstrip(lstrip(term))

\* Variant of parse_search_terms without "Remove empty terms".
parse_search_terms_keep_empty(llm_response) ==
    IF ~llm_response.present \/ llm_response.text = <<>>
    THEN <<>>
    ELSE LET pieces == split(llm_response.text)
         IN [i \in 1..Len(pieces) |-> strip(pieces[i])]

\* llm_handler.parse_search_terms.
parse_search_terms(llm_response) ==
    IF ~llm_response.present \/ llm_response.text = <<>>
    THEN <<>>
    ELSE LET pieces == split(llm_response.text)
             terms == [i \in 1..Len(pieces) |-> strip(pieces[i])]
         IN SelectSeq(terms, LAMBDA term : term # <<>>)

\* What Step 2 gets from get_llm_response: a response, LlmApiError raised or
\* another exception raised.
LlmAnswers ==
    {[outcome |-> "response", llm_response |-> r] : r \in LlmResponses} \cup
    {[outcome |-> o, llm_response |-> [present |-> FALSE, text |-> <<>>]] :
        o \in {"llm_error", "exception"}}

\* search_terms at the end of Step 2: the parsed list, or the initial [] when
\* get_llm_response raised.
step_search_terms(answer) ==
    IF answer.outcome = "response"
    THEN parse_search_terms(answer.llm_response)
    ELSE <<>>

\* What Step 2 makes of the answer: the exception, or "if not search_terms".
search_terms_answer(answer) ==
    IF answer.outcome # "response" THEN answer.outcome
    ELSE IF step_search_terms(answer) = <<>> THEN "empty" ELSE "terms"

\* The numbers of search_mouser_by_keyword calls Step 3 may make: none unless
\* the status is 'pending' and there are search terms, then one per term, the
\* loop ending early at a call that raises (which is not the first call when
\* earlier ones returned parts).
keyword_searches(status, search_terms, item) ==
    IF status = "pending" /\ search_terms # <<>>
    THEN CASE item.keyword \in {"mouser_error", "exception"} ->
                 1..Len(search_terms)
           [] item.keyword = "parts_then_mouser_error" ->
                 2..Len(search_terms)
           [] OTHER ->
                 {Len(search_terms)}
    ELSE {0}

\* One direct call of parse_search_terms.
ParseSearchTerms ==
    /\ call = NoCall
    /\ \E llm_response \in LlmResponses :
          call' = [op |-> "parse_search_terms", llm_response |-> llm_response,
                   search_terms |-> parse_search_terms(llm_response)]
    /\ UNCHANGED <<now, projects, n_items, matches, api, api_id, pc, cur, task,
                   orchestration_succeeded, store_vars>>

\* One item task seen with the LLM's answer to the search-term prompt: Step 2
\* parses it and the pipeline goes on with the list.
ItemTerms ==
    /\ call = NoCall
    /\ \E answer \in LlmAnswers, item \in PipelineInputs :
         LET search_terms == step_search_terms(answer)
         IN /\ item.terms = search_terms_answer(answer)
            /\ \E end \in process_single_bom_item(item, Committed) :
                 \E n \in keyword_searches(generate_search_terms("pending", item),
                                           search_terms, item) :
                    call' = [op |-> "search_terms_step",
                             llm_outcome |-> answer.outcome,
                             llm_response |-> answer.llm_response,
                             search_terms |-> search_terms,
                             item |-> item,
                             keyword_searches |-> n,
                             stages |-> end.stages, calls |-> end.calls,
                             status |-> end.status, row |-> end.row,
                             component_id |-> end.component_id]
    /\ UNCHANGED <<now, projects, n_items, matches, api, api_id, pc, cur, task,
                   orchestration_succeeded, store_vars>>

TermsNext ==
    \/ ParseSearchTerms
    \/ ItemTerms

SpecTerms == ClientInit /\ [][TermsNext]_vars

\* -------------------------------------------------------- the worker pool
\* The default of process_project_from_db's max_workers, the width of its
\* ThreadPoolExecutor.
max_workers == 5

PoolItems == 1..MaxPoolItems

\* A task that executor.submit has put on the pool's queue and no thread has
\* taken yet.
QueuedTask == [IdleTask EXCEPT !.state = "queued"]

\* What the services answer to the tasks of the pool: the LLM fails on the
\* search terms, and the save of the row succeeds or fails.
PoolInputs == {inp \in PipelineInputs : inp.terms = "llm_error"}

InQueue == {i \in PoolItems : task[i].state = "queued"}
InThread == {i \in PoolItems : task[i].state = "running"}
Submitted == {i \in PoolItems : task[i].state \in {"queued", "running", "done"}}

\* Variant of the pool that starts a thread for every task.
may_start_unbounded(running) == TRUE

\* ThreadPoolExecutor(max_workers=max_workers): a queued task is taken by a
\* thread while fewer than max_workers tasks are running.
may_start(running) == Cardinality(running) < max_workers

\* A project in processing with up to MaxPoolItems BomItems, as
\* process_project_from_db finds it.
PoolInit ==
    /\ now = 1
    /\ projects = [p \in ProjectIds |->
                     IF p = 1 THEN RowOf("processing", 1) ELSE AbsentRow]
    /\ n_items \in {[p \in ProjectIds |-> IF p = 1 THEN n ELSE 0] :
                       n \in 0..MaxPoolItems}
    /\ matches = [p \in ProjectIds |-> [i \in PoolItems |-> <<>>]]
    /\ api = "idle"
    /\ api_id = 0
    /\ pc = "load"
    /\ cur = 1
    /\ task = [i \in PoolItems |-> IdleTask]
    /\ orchestration_succeeded = "none"
    /\ call = NoCall
    /\ components \in StoredComponents
    /\ session = [s \in Sessions |-> IdleSession]
    /\ cache = {}
    /\ client = [s \in Sessions |-> IdleClient]
    /\ bom_items = <<>>

\* process_project_from_db up to the pool, as WorkerLoad.
PoolLoad ==
    /\ pc = "load"
    /\ \E loaded \in load_project_data_from_db(cur) :
          IF ~loaded.project
          THEN /\ orchestration_succeeded' = "false"
               /\ pc' = "returned"
               /\ UNCHANGED task
          ELSE /\ task' = [i \in PoolItems |->
                             IF i <= loaded.bom_items THEN UnsubmittedTask
                                                      ELSE IdleTask]
               /\ pc' = IF loaded.bom_items = 0 THEN "collect" ELSE "submit"
               /\ UNCHANGED orchestration_succeeded
    /\ UNCHANGED <<now, projects, n_items, matches, api, api_id, cur, call>>
    /\ UNCHANGED store_vars

\* executor.submit for the next BomItem, in list order: the task is queued;
\* or the submit raises out of the loop.
PoolSubmit ==
    /\ pc = "submit"
    /\ \E i \in PoolItems :
          /\ task[i].state = "unsubmitted"
          /\ \A k \in PoolItems : task[k].state = "unsubmitted" => i <= k
          /\ \/ /\ task' = [task EXCEPT ![i] = QueuedTask]
                /\ pc' = IF \E k \in PoolItems :
                               k # i /\ task[k].state = "unsubmitted"
                         THEN "submit" ELSE "collect"
             \/ /\ pc' = "abort"
                /\ UNCHANGED task
    /\ UNCHANGED <<now, projects, n_items, matches, api, api_id, cur,
                   orchestration_succeeded, call>>
    /\ UNCHANGED store_vars

\* A thread of the pool takes the task at the head of the queue.
PoolStart ==
    /\ InQueue # {}
    /\ may_start(InThread)
    /\ \E i \in InQueue :
          /\ \A k \in InQueue : i <= k
          /\ task' = [task EXCEPT ![i] = RunningTask]
    /\ UNCHANGED <<now, projects, n_items, matches, api, api_id, pc, cur,
                   orchestration_succeeded, call>>
    /\ UNCHANGED store_vars

\* _process_single_bom_item in a pool thread, as ItemTask.
PoolTask(i) ==
    /\ task[i].state = "running"
    /\ \E inp \in PoolInputs :
         \E res \in process_single_bom_item(inp, Committed) :
          /\ task' = [task EXCEPT ![i] =
                         [state |-> "done", status |-> res.status,
                          chosen_mpn |-> res.chosen_mpn,
                          final_part_details |-> res.final_part_details]]
          /\ matches' = [matches EXCEPT ![cur][i] =
                           IF res.row
                           THEN Append(@, create_bom_item_match(res.component_id,
                                                                res.status))
                           ELSE @]
    /\ UNCHANGED <<now, projects, n_items, api, api_id, pc, cur,
                   orchestration_succeeded, call>>
    /\ UNCHANGED store_vars

\* as_completed has yielded every future: the final update to 'finished' and
\* "return True".
PoolFinalize ==
    /\ pc = "collect"
    /\ InQueue = {} /\ InThread = {}
    /\ \E row \in worker_status_update(projects[cur], "finished") :
          projects' = [projects EXCEPT ![cur] = row]
    /\ orchestration_succeeded' = "true"
    /\ pc' = "returned"
    /\ UNCHANGED <<now, n_items, matches, api, api_id, cur, task, call>>
    /\ UNCHANGED store_vars

\* The "except Exception" block, entered once the executor's shutdown has
\* waited for the tasks already submitted: the update to 'error' and "return
\* False".
PoolSetupError ==
    /\ pc = "abort"
    /\ InQueue = {} /\ InThread = {}
    /\ \E row \in worker_status_update(projects[cur], "error") :
          projects' = [projects EXCEPT ![cur] = row]
    /\ orchestration_succeeded' = "false"
    /\ pc' = "returned"
    /\ UNCHANGED <<now, n_items, matches, api, api_id, cur, task, call>>
    /\ UNCHANGED store_vars

PoolNext ==
    \/ PoolLoad
    \/ PoolSubmit
    \/ PoolStart
    \/ \E i \in PoolItems : PoolTask(i)
    \/ PoolFinalize
    \/ PoolSetupError

SpecPool == PoolInit /\ [][PoolNext]_vars

\* ------------------------------------------------------- GET /project/{id}
\* The rows of the outer join of a project's BomItems with their
\* BomItemMatch rows, from item `first` on in insertion order: one row per
\* match row of an item, and one row without a match for an item that has
\* none.
RECURSIVE join_rows(_, _)
join_rows(project_id, first) ==
    IF first > n_items[project_id]
    THEN <<>>
    ELSE LET rows == matches[project_id][first]
         IN (IF rows = <<>>
             THEN <<[bom_item_id |-> first, match_status |-> "none",
                     component_id |-> NoComponent]>>
             ELSE [k \in 1..Len(rows) |->
                     [bom_item_id |-> first,
                      match_status |-> rows[k].match_status,
                      component_id |-> rows[k].component_id]])
            \o join_rows(project_id, first + 1)

\* crud.get_finished_project_data: the query has no ORDER BY, so the joined
\* rows come in the order of the scan, which may start at any row and wrap
\* around.
get_finished_project_data(project_id) ==
    LET rows == join_rows(project_id, 1)
        n == Len(rows)
    IN IF n = 0 THEN {<<>>}
       ELSE {SubSeq(rows, k, n) \o SubSeq(rows, 1, k - 1) : k \in 1..n}

\* The match_status get_project starts a component with: "pending" in the
\* branch for processing projects, "no_match_record" in the branch for
\* finished ones.
default_match_status(status) ==
    IF status = "processing" THEN "pending" ELSE "no_match_record"

\* The components get_project builds from the joined rows, one per row, the
\* BomItem's key standing for the fields taken from the BomItem.
matched_components(results_data, status) ==
    [k \in 1..Len(results_data) |->
        [bom_item_id |-> results_data[k].bom_item_id,
         match_status |-> IF results_data[k].match_status = "none"
                          THEN default_match_status(status)
                          ELSE results_data[k].match_status]]

\* GET /project/{id} for a project that is processing or finished.
GetProjectResults ==
    /\ \E p \in ProjectIds :
          /\ projects[p].status \in {"processing", "finished"}
          /\ \E results_data \in get_finished_project_data(p) :
                call' = [op |-> "get_project_results", project_id |-> p,
                         status |-> projects[p].status,
                         components |->
                             matched_components(results_data, projects[p].status)]
    /\ UNCHANGED <<now, projects, n_items, matches, api, api_id, pc, cur, task,
                   orchestration_succeeded, store_vars>>

ReadNext ==
    \/ WorkerLoad
    \/ WorkerSubmit
    \/ \E i \in 1..MaxItems : ItemTask(i)
    \/ WorkerFinalize
    \/ WorkerSetupError
    \/ GetProjectResults

SpecRead == WorkerInit /\ [][ReadNext]_vars

\* ------------------------------------------------------------------ claims
\* The legal transitions of a project's status (data model, "Legal transitions").
LegalTransitions ==
    {<<"queued", "processing">>, <<"queued", "cancelled">>,
     <<"processing", "finished">>, <<"processing", "error">>,
     <<"processing", "cancelled">>,
     <<"finished", "cancelled">>, <<"error", "cancelled">>}

StatusChanged(p) == projects'[p].status # projects[p].status

\* C1: every change of a project's stored status is a legal transition (the
\* creation of the row as queued aside); a cancelled project never changes.
C1_OnlyLegalTransitions ==
    [][\A p \in ProjectIds :
         StatusChanged(p) =>
            \/ projects[p].status = "absent" /\ projects'[p].status = "queued"
            \/ <<projects[p].status, projects'[p].status>> \in LegalTransitions]_vars

\* C2: update_project_status for an unknown id or an illegal (current, new)
\* pair reports failure and leaves status, start and end timestamp unchanged;
\* for a legal pair it reports success and the status becomes the new status.
C2_UpdateStatusContract ==
    call.op = "update_project_status" =>
        LET before == call.before
            after == projects[call.id]
        IN IF \/ before.status = "absent"
              \/ <<before.status, call.new_status>> \notin LegalTransitions
           THEN /\ ~call.ok
                /\ after.status = before.status
                /\ after.start_time = before.start_time
                /\ after.end_time = before.end_time
           ELSE /\ call.ok
                /\ after.status = call.new_status

C2_Witness ==
    /\ call.op = "update_project_status"
    /\ call.ok
    /\ call.before.status = "processing"
    /\ projects[call.id].status = "finished"
    /\ \E q \in ProjectIds : q # call.id /\ projects[q].status = "cancelled"

\* C3: a project cancelled before the runner claimed it (cancelled, no start
\* timestamp) stays cancelled, and no item task of it ever runs.
C3_CancelledBeforeClaimStays ==
    [][\A p \in ProjectIds :
         (projects[p].status = "cancelled" /\ projects[p].start_time = NoTime) =>
            /\ projects'[p].status = "cancelled"
            /\ ~(cur' = p /\ pc' \in {"load", "submit", "collect", "abort"})]_vars

\* C4: a project becomes cancelled only from queued or error, never from
\* processing or finished.
C4_CancelOnlyFromQueuedOrError ==
    [][\A p \in ProjectIds :
         (StatusChanged(p) /\ projects'[p].status = "cancelled") =>
            projects[p].status \in {"queued", "error"}]_vars

C6_PositionsAreRanks ==
    /\ {get_queue_info(p)[1] : p \in QueuedIds} = 1..Cardinality(QueuedIds)
    /\ \A p, q \in QueuedIds : p # q => get_queue_info(p)[1] # get_queue_info(q)[1]

\* C7: whenever the runner moves a project to processing, no other queued
\* project has an earlier creation time, and every project claimed before it
\* was created no later: projects enter processing in creation order.
C7_FifoClaim ==
    [][\A p \in ProjectIds :
         (StatusChanged(p) /\ projects'[p].status = "processing") =>
            /\ \A q \in ProjectIds :
                  (q # p /\ projects[q].status = "queued") =>
                     projects[p].created_at <= projects[q].created_at
            /\ \A q \in ProjectIds :
                  (q # p /\ projects[q].start_time # NoTime) =>
                     projects[q].created_at <= projects[p].created_at]_vars

C7_Witness ==
    \E p, q \in ProjectIds :
        /\ projects[p].created_at < projects[q].created_at
        /\ projects[p].status = "finished"
        /\ projects[q].status = "processing"
        /\ projects[q].start_time # NoTime

\* C8: a project the runner moved to processing reaches finished or error: it
\* is not left in processing once process_project_from_db has returned, after
\* which nothing updates it any more.
C8_NotLeftProcessing ==
    pc = "returned" => projects[cur].status # "processing"

\* C9: when the worker loaded the project and every item task produced a
\* status (the call returns True), the project is finished with its end
\* timestamp set.
C9_FinishedWhenOrchestrated ==
    [][(pc # "returned" /\ pc' = "returned" /\ orchestration_succeeded' = "true") =>
          /\ projects'[cur].status = "finished"
          /\ projects'[cur].end_time # NoTime]_vars

\* C10: when process_project_from_db returns False for a project that is
\* processing, the project is in error with its end timestamp set.
C10_ErrorWhenSetupFailed ==
    [][(/\ pc # "returned"
        /\ pc' = "returned"
        /\ orchestration_succeeded' = "false"
        /\ projects[cur].status = "processing") =>
          /\ projects'[cur].status = "error"
          /\ projects'[cur].end_time # NoTime]_vars

\* The item rows of project p: the BomItemMatch rows of its BomItems.
ItemsOf(p) == 1..n_items[p]

Rows(p, i) == {matches[p][i][k] : k \in 1..Len(matches[p][i])}

\* C11: every BomItem of a finished project has exactly one BomItemMatch row,
\* whatever status its task ended in.
C11_FinishedItemsHaveOneMatch ==
    \A p \in ProjectIds :
        projects[p].status = "finished" =>
            \A i \in ItemsOf(p) : Len(matches[p][i]) = 1

\* C12: a stored BomItemMatch row references a Component (one that is in the
\* components table) if and only if its match_status is matched.
C12_ComponentIffMatched ==
    \A p \in ProjectIds, i \in 1..MaxItems :
        \A row \in Rows(p, i) :
            /\ row.component_id # NoComponent <=> row.match_status = "matched"
            /\ row.component_id # NoComponent =>
                  \E c \in Committed : c.component_id = row.component_id

C12_Witness ==
    \E p \in ProjectIds, i, j \in 1..MaxItems :
        /\ \E row \in Rows(p, i) :
              row.match_status = "processing_error" /\ row.component_id = NoComponent
        /\ \E row \in Rows(p, j) :
              row.match_status = "mouser_error" /\ row.component_id = NoComponent

\* The closed status vocabulary (MatchPipeline, "Final status vocabulary").
StatusVocabulary ==
    {"matched", "search_term_failed", "no_keyword_results", "evaluation_failed",
     "mpn_lookup_failed", "component_db_error", "llm_error", "mouser_error",
     "processing_error", "db_save_error", "worker_uncaught_exception"}

C14_SiblingsIsolated ==
    [][/\ \A i \in 1..MaxItems :
             (task[i].state = "running" /\ task'[i].state = "done") =>
                \A j \in 1..MaxItems \ {i} :
                    /\ task'[j] = task[j]
                    /\ matches'[cur][j] = matches[cur][j]
       /\ (/\ pc = "collect"
           /\ pc' = "returned"
           /\ \E i, j \in 1..MaxItems :
                 /\ i # j
                 /\ task[i].state = "done" /\ task[i].status # "matched"
                 /\ task[j].state = "done") =>
             /\ \A i \in 1..MaxItems : task[i].state \in {"idle", "done"}
             /\ projects'[cur].status = "finished"]_vars

C16_GetOrCreateIdempotent ==
    \A s \in Sessions :
        (session[s].op = "get_or_create_component" /\ session[s].pc = "committed") =>
            /\ session[s].result # NoComponent
            /\ Cardinality({c \in Committed :
                   c.mouser_part_number = session[s].mouser_part_number}) = 1
            /\ \A t \in Sessions :
                  (/\ session[t].op = "get_or_create_component"
                   /\ session[t].pc = "committed"
                   /\ session[t].mouser_part_number = session[s].mouser_part_number) =>
                     session[t].result = session[s].result

\* C17: at most one committed Component per Mouser part number.
C17_OneComponentPerPartNumber ==
    \A c, d \in Committed :
        c.mouser_part_number = d.mouser_part_number =>
            c.component_id = d.component_id

C17_Witness ==
    \E s, t \in Sessions :
        /\ s # t
        /\ session[s].op = "get_or_create_component"
        /\ session[s].pc = "committed"
        /\ session[s].integrity_error
        /\ session[t].op = "get_project"
        /\ session[t].pc = "committed"
        /\ session[t].mouser_part_number = session[s].mouser_part_number
        /\ session[t].result = session[s].result

\* C18: after a cache write there is exactly one row for its (search_term,
\* search_type), holding the payload and the timestamp of that latest write.
C18_NewestWriteWins ==
    call.op = "cache_response" =>
        LET rows == CacheRows(cache, call.search_term, call.search_type)
        IN /\ Cardinality(rows) = 1
           /\ \A r \in rows :
                 r.response_data = call.response_data /\ r.cached_at = call.at

\* C19: get_cached_response returns a payload only if a row for exactly that
\* (search_term, search_type) exists whose age is at most max_age_seconds, and
\* then the payload of the most recent such row; with no such row it returns
\* nothing.
C19_FreshOnly ==
    call.op = "get_cached_response" =>
        LET fresh == {r \in cache :
                         /\ r.search_term = call.search_term
                         /\ r.search_type = call.search_type
                         /\ call.at - r.cached_at <= call.max_age_seconds}
        IN IF fresh = {}
           THEN call.result = "none"
           ELSE call.result # "none" =>
                   \E r \in fresh :
                      /\ r.response_data = call.result
                      /\ \A q \in fresh : q.cached_at <= r.cached_at

C19_Witness ==
    /\ call.op = "get_cached_response"
    /\ call.result = "none"
    /\ \E r \in cache :
          /\ r.search_term = call.search_term
          /\ r.search_type = call.search_type
          /\ call.at - r.cached_at > call.max_age_seconds
    /\ \E r \in cache : r.search_type # call.search_type /\ r.cached_at = call.at

\* C20: a DistributorClient call made after a call of the same operation for
\* the same search term was answered, within the cache window of that call,
\* makes no remote request: it is answered from the cache, with the same parts
\* as the first.
C20_OneRemoteRequest ==
    [][\A s, t \in Sessions :
         (/\ s # t
          /\ client[s].pc = "answered"
          /\ client[t].pc = "idle"
          /\ client'[t].pc # "idle"
          /\ client'[t].search_term = client[s].search_term
          /\ client'[t].search_type = client[s].search_type
          /\ client'[t].called_at - client[s].called_at <= MaxAge) =>
             /\ client'[t].pc = "answered"
             /\ client'[t].requests = 0
             /\ client'[t].parts = client[s].parts]_vars

\* C21: a failing cache never fails a search.  With a failing cache read the
\* call is no hit and, the API key being set, asks the distributor; whenever
\* the distributor was asked and its last answer is a good response, the call
\* returns the parts of that response, whether or not the cache write
\* succeeded; and the call raises only without an API key or when the last
\* answer is not a good response.
C21_CacheFailureNeverFailsSearch ==
    call.op = "search_mouser" =>
        /\ call.inp.read_fails =>
              /\ ~call.hit
              /\ call.inp.api_key => call.requests >= 1
        /\ (call.requests >= 1 /\ call.inp.answers[call.requests] = "200") =>
              /\ call.outcome = "parts"
              /\ call.parts = call.inp.response_data
        /\ call.outcome = "raised" =>
              \/ ~call.inp.api_key
              \/ /\ call.requests >= 1
                 /\ call.inp.answers[call.requests] # "200"

C21_Witness ==
    /\ call.op = "search_mouser"
    /\ call.inp.read_fails
    /\ call.inp.write_fails
    /\ call.requests >= 1
    /\ ~call.wrote
    /\ call.outcome = "parts"
    /\ call.parts = "P2"

\* C22 as stated: when the first three requests of a call are answered 429,
\* the call fails and the item (its row being saved) is recorded as
\* mouser_error.
C22_ThreeRateLimitsFail ==
    (/\ call.op = "process_single_bom_item"
     /\ call.requests >= 3
     /\ \A k \in 1..3 : call.answers[k] = "429"
     /\ ~call.save_fails) =>
        /\ call.outcome = "raised"
        /\ call.row
        /\ call.status = "mouser_error"

\* C22, amended: when every request of a call, the initial one and its
\* MAX_RETRIES retries, is answered 429, the call raises the distributor
\* error and writes nothing to the cache; the item task stores no Component
\* reference, a row it stores has status mouser_error, and it stores that row
\* unless the save itself fails.
C22_AllRateLimitsFail ==
    (/\ call.op = "process_single_bom_item"
     /\ call.requests = MAX_RETRIES + 1
     /\ \A k \in 1..(MAX_RETRIES + 1) : call.answers[k] = "429") =>
        /\ call.outcome = "raised"
        /\ ~call.wrote
        /\ call.component_id = NoComponent
        /\ call.row => call.status = "mouser_error"
        /\ ~call.save_fails => call.row

C22_Witness ==
    /\ call.op = "process_single_bom_item"
    /\ call.requests = MAX_RETRIES + 1
    /\ \A k \in 1..(MAX_RETRIES + 1) : call.answers[k] = "429"
    /\ call.row
    /\ call.status = "mouser_error"

\* C23: a call sends at most MAX_RETRIES + 1 requests; every request but the
\* last was answered by a transport error or 429; a last answer that is
\* another status code or a 200 with an Errors block ends the call with the
\* distributor error; and the call ends with parts or with the error, with
\* parts from the distributor only when the last answer is a good response.
C23_BoundedRetry ==
    call.op = "search_mouser" =>
        /\ call.requests <= MAX_RETRIES + 1
        /\ \A k \in 1..(MAX_RETRIES + 1) :
              k < call.requests => call.inp.answers[k] \in Retriable
        /\ (/\ call.requests >= 1
            /\ call.inp.answers[call.requests] \in {"500", "200_errors"}) =>
              call.outcome = "raised"
        /\ call.outcome \in {"parts", "raised"}
        /\ (call.outcome = "parts" /\ ~call.hit) =>
              /\ call.requests >= 1
              /\ call.inp.answers[call.requests] = "200"

C23_Witness ==
    /\ call.op = "search_mouser"
    /\ call.requests = MAX_RETRIES + 1
    /\ call.inp.answers[1] = "429"
    /\ call.inp.answers[2] = "transport_error"
    /\ call.inp.answers[MAX_RETRIES + 1] = "500"
    /\ call.outcome = "raised"

\* The smaller of two numbers.
Min(a, b) == IF a <= b THEN a ELSE b

\* What a successful ingestion stored for its project.
Stored == ItemsInOrder(bom_items, call.project_id)

Ingested == call.op = "create_project" /\ call.committed

\* C24: a successful ingestion of a BOM of n processed rows stores exactly
\* min(n, 20) BomItems, which are the first min(n, 20) rows in their order
\* (with ascending keys), and reports truncation if and only if n > 20.
C24_CapAtTwenty ==
    Ingested =>
        LET rows == components_to_process(call.bom)
        IN /\ Len(Stored) = Min(call.bom.n, 20)
           /\ \A i \in 1..Len(Stored) :
                 /\ Stored[i] = create_bom_item(process_component(rows[i]),
                                                call.project_id,
                                                Stored[i].bom_item_id)
                 /\ i > 1 => Stored[i - 1].bom_item_id < Stored[i].bom_item_id
           /\ call.truncation_info <=> call.bom.n > 20

C24_Witness ==
    /\ Ingested
    /\ call.bom.n = 21
    /\ call.truncation_info
    /\ Len(Stored) = 20

C26_IngestionAtomic ==
    /\ \A p \in ProjectIds :
          projects[p].status # "absent" => ~(api = "post" /\ api_id = p)
    /\ (call.op = "create_project" /\ ~call.committed) =>
          /\ projects[call.project_id].status = "absent"
          /\ Stored = <<>>

\* C27: the component list a GET returns for the queued project equals the
\* list ingestion persisted, field for field and in the same order.
C27_RoundTrip ==
    call.op = "get_project" => call.components = call.processed_components

\* C28: get_bom_items_for_project returns the project's BomItems in the order
\* of their creation (ascending keys), on every read.
C28_CreationOrder ==
    call.op = "get_bom_items_for_project" =>
        \A i \in 1..Len(call.bom_item_ids) :
            i > 1 => call.bom_item_ids[i - 1] < call.bom_item_ids[i]

\* C29: once process_project_from_db has been invoked again for a project,
\* no BomItem of the project ever has two BomItemMatch rows side by side (the
\* second run refuses, or replaces the rows of the first).
C29_RerunKeepsOneMatch ==
    call.op = "process_project_from_db" =>
        \A i \in ItemsOf(call.project_id) :
            Len(matches[call.project_id][i]) <= 1

\* C30: an item with keyword candidates for which the LLM's evaluation
\* response has no [ManufacturerPartNumber:...] token ends (its row being
\* saved) in evaluation_failed, with no MPN chosen, so that Step 5 asks
\* neither the Store nor the distributor, and its row has no Component.
C30_EvaluationFailed ==
    (/\ call.op = "process_single_bom_item"
     /\ call.item.terms = "terms"
     /\ call.item.keyword = "parts"
     /\ call.item.eval = "none"
     /\ ~call.item.save_fails) =>
        /\ call.status = "evaluation_failed"
        /\ call.chosen_mpn = "none"
        /\ call.row
        /\ call.component_id = NoComponent

\* The least and the greatest of a non-empty set of numbers.
Least(S) == CHOOSE x \in S : \A y \in S : x <= y

Greatest(S) == CHOOSE x \in S : \A y \in S : y <= x

\* C31: parse_search_terms returns the pieces of the response between its
\* commas, in their order, each without its leading and trailing whitespace,
\* the pieces that are all whitespace left out; for an absent or empty
\* response that is the empty list; and with an empty list the item task makes
\* no keyword search, stores no Component reference and (its row being saved)
\* ends in search_term_failed.
C31_ParseSearchTerms ==
    call.op \in {"parse_search_terms", "search_terms_step"} =>
        LET text == call.llm_response.text
            cuts == {0, Len(text) + 1} \cup {i \in 1..Len(text) : text[i] = ","}
            piece(lo) == (lo + 1)..(Least({c \in cuts : c > lo}) - 1)
            inside(lo) == {i \in piece(lo) : text[i] \notin Whitespace}
            kept == {lo \in cuts \ {Len(text) + 1} : inside(lo) # {}}
            rank(lo) == Cardinality({m \in kept : m <= lo})
        IN /\ Len(call.search_terms) = Cardinality(kept)
           /\ \A lo \in kept :
                 call.search_terms[rank(lo)] =
                    SubSeq(text, Least(inside(lo)), Greatest(inside(lo)))
           /\ (~call.llm_response.present \/ text = <<>>) =>
                 call.search_terms = <<>>
           /\ (/\ call.op = "search_terms_step"
               /\ call.llm_outcome = "response"
               /\ call.search_terms = <<>>) =>
                 /\ call.keyword_searches = 0
                 /\ call.component_id = NoComponent
                 /\ call.row => call.status = "search_term_failed"
                 /\ ~call.item.save_fails => call.row

C31_Witness ==
    /\ call.op = "search_terms_step"
    /\ call.llm_response.text = <<" ", ",", " ">>
    /\ call.search_terms = <<>>
    /\ call.keyword_searches = 0
    /\ call.row
    /\ call.status = "search_term_failed"

\* C32: a project in processing has its start timestamp, a project in
\* finished or error has its end timestamp, and a queued project has neither.
C32_TimestampsFollowStatus ==
    \A p \in ProjectIds :
        /\ projects[p].status = "processing" => projects[p].start_time # NoTime
        /\ projects[p].status \in {"finished", "error"} =>
              projects[p].end_time # NoTime
        /\ projects[p].status = "queued" =>
              /\ projects[p].start_time = NoTime
              /\ projects[p].end_time = NoTime

C32_Witness ==
    \E p, q \in ProjectIds :
        /\ projects[p].status = "error"
        /\ projects[p].end_time # NoTime
        /\ projects[q].status = "processing"
        /\ projects[q].start_time > projects[p].end_time

\* The order of the calls of one item task.
StageOrder ==
    <<"llm_search_terms", "search_mouser_by_keyword", "llm_evaluation",
      "get_component_by_mpn", "search_mouser_by_mpn", "get_or_create_component",
      "create_bom_item_match">>

Position(name) == CHOOSE k \in 1..Len(StageOrder) : StageOrder[k] = name

\* C33: the calls of an item task come in the order search terms, keyword
\* search, evaluation, MPN lookup, save, each at most once per stage; the
\* keyword search is made only with the status still pending after Step 2,
\* the evaluation only with it pending after Step 3, the Store and
\* distributor lookups of Step 5 only with it pending after Step 4; a status
\* that a step has set is not changed by a later step; and a row that is
\* stored carries the status the steps ended with.
C33_StagesInOrderWhilePending ==
    call.op = "search_terms_step" =>
        LET made == {call.calls[k] : k \in 1..Len(call.calls)}
        IN /\ \A k \in 1..Len(call.calls) :
                 /\ call.calls[k] \in {StageOrder[j] : j \in 1..Len(StageOrder)}
                 /\ k > 1 => Position(call.calls[k - 1]) < Position(call.calls[k])
           /\ "search_mouser_by_keyword" \in made => call.stages[1] = "pending"
           /\ "llm_evaluation" \in made => call.stages[2] = "pending"
           /\ made \cap {"get_component_by_mpn", "search_mouser_by_mpn",
                         "get_or_create_component"} # {} =>
                 call.stages[3] = "pending"
           /\ \A k \in 1..3 :
                 call.stages[k] # "pending" => call.stages[k + 1] = call.stages[k]
           /\ call.row =>
                 call.status = (IF call.stages[4] = "pending"
                                THEN "error" ELSE call.stages[4])

C33_Witness ==
    /\ call.op = "search_terms_step"
    /\ call.item.keyword = "parts_then_mouser_error"
    /\ call.stages = <<"pending", "mouser_error", "mouser_error", "mouser_error">>
    /\ call.calls = <<"llm_search_terms", "search_mouser_by_keyword",
                      "create_bom_item_match">>
    /\ call.row
    /\ call.status = "mouser_error"

\* C34: an item with keyword candidates for which the LLM chooses an MPN that
\* no Component of the Store has (the lookups and the save succeeding) ends,
\* when the distributor's MPN search returns a part, in matched with a row
\* that references a Component, and when it returns no part, in
\* mpn_lookup_failed with a row without a Component.
C34_MpnLookupResolves ==
    (/\ call.op = "process_single_bom_item"
     /\ call.item.terms = "terms"
     /\ call.item.keyword = "parts"
     /\ call.item.eval \in Mpns
     /\ ~call.item.lookup_fails
     /\ ~call.item.save_fails
     /\ get_component_by_mpn(Committed, call.item.eval) = {}) =>
        /\ call.chosen_mpn = call.item.eval
        /\ call.row
        /\ call.item.mpn_search = "part" =>
              /\ call.status = "matched"
              /\ call.component_id # NoComponent
        /\ call.item.mpn_search = "none" =>
              /\ call.status = "mpn_lookup_failed"
              /\ call.component_id = NoComponent

\* C35: at most one project is in processing at any time, and none is while
\* the queue runner is between two projects (polling for the next one or about
\* to claim it).
C35_OneProjectProcessing ==
    LET processing == {p \in ProjectIds : projects[p].status = "processing"}
    IN /\ Cardinality(processing) <= 1
       /\ pc \in {"poll", "claim"} => processing = {}

\* C36: the tasks of the pool are tasks of the project's N BomItems, one per
\* item, and once the submit loop has ended there are exactly N of them; at
\* most max_workers tasks run at the same time; and the project is set to
\* finished (the worker returning True) only with all N tasks completed.  (A
\* submit that raises ends the loop early: the project is then set to error,
\* after the tasks submitted so far have completed.)
C36_OneTaskPerItemBoundedPool ==
    LET N == n_items[cur]
    IN /\ Submitted \subseteq 1..N
       /\ pc = "collect" => Submitted = 1..N
       /\ Cardinality(InThread) <= max_workers
       /\ (projects[cur].status = "finished" \/ orchestration_succeeded = "true") =>
             \A i \in 1..N : task[i].state = "done"
       /\ pc = "returned" => InQueue = {} /\ InThread = {}

C36_Witness ==
    /\ n_items[cur] = MaxPoolItems
    /\ pc = "collect"
    /\ Cardinality(InThread) = max_workers
    /\ InQueue # {}

\* C37: a search writes a cache row only when the distributor's last answer
\* was a good response (HTTP 200 without an Errors block, decodable), and then
\* the row holds that response; a search that ends in the distributor error
\* (every attempt answered 429 or lost in transport, another status code, an
\* Errors block, an undecodable body, no API key) leaves the cache as it was.
C37_CacheOnlyGoodResponses ==
    call.op = "search_mouser" =>
        /\ call.wrote =>
              /\ call.outcome = "parts"
              /\ ~call.hit
              /\ call.requests >= 1
              /\ call.inp.answers[call.requests] = "200"
              /\ \E r \in CacheRows(cache, call.inp.search_term,
                                    call.inp.search_type) :
                    /\ r.response_data = call.inp.response_data
                    /\ r.cached_at = call.at
        /\ call.outcome = "raised" => ~call.wrote
        /\ (call.requests >= 1 /\ call.inp.answers[call.requests] # "200") =>
              ~call.wrote

C37_Witness ==
    /\ call.op = "search_mouser"
    /\ call.outcome = "raised"
    /\ call.requests = 2
    /\ call.inp.answers[1] = "transport_error"
    /\ call.inp.answers[2] = "200_errors"
    /\ ~call.wrote
    /\ CacheRows(cache, call.inp.search_term, call.inp.search_type) = {}
    /\ cache # {}

\* C38: a GET of a project that is processing or finished returns one
\* component per BomItem, in the insertion order of the BomItems, the
\* component of an item carrying the status of the item's match row when the
\* row is written and the placeholder of the project's status when it is not.
C38_ProgressiveRead ==
    [][(call' # call /\ call'.op = "get_project_results") =>
          LET p == call'.project_id
          IN /\ Len(call'.components) = n_items[p]
             /\ \A i \in 1..Len(call'.components) :
                   /\ call'.components[i].bom_item_id = i
                   /\ i <= n_items[p] =>
                         call'.components[i].match_status =
                            (IF matches[p][i] = <<>>
                             THEN default_match_status(projects[p].status)
                             ELSE matches[p][i][1].match_status)]_vars

\* C39: a project that is cancelled while the worker has it stays cancelled:
\* the worker's final update does not move it to finished (or error); its
\* running tasks are not interrupted, each ends in a status of the vocabulary
\* and (unless its save fails) adds its match row with that status; and the
\* worker returns only when no task is running any more.
C39_CancelledInFlightStays ==
    [][\A p \in ProjectIds :
         (projects[p].status = "cancelled" /\ ~(pc = "claim" /\ cur = p)) =>
            /\ projects'[p].status = "cancelled"
            /\ (cur = p /\ pc \in {"submit", "collect", "abort"}) =>
                  /\ \A i \in 1..MaxItems :
                        task[i].state = "running" =>
                           \/ task'[i].state = "running"
                           \/ /\ task'[i].state = "done"
                              /\ task'[i].status \in StatusVocabulary
                              /\ task'[i].status # "worker_uncaught_exception" =>
                                    /\ Len(matches'[p][i]) = Len(matches[p][i]) + 1
                                    /\ matches'[p][i][Len(matches'[p][i])].match_status
                                          = task'[i].status
                  /\ pc' = "returned" => Running = {}]_vars

C39_Witness ==
    /\ pc = "returned"
    /\ orchestration_succeeded = "true"
    /\ projects[cur].status = "cancelled"
    /\ projects[cur].start_time # NoTime
    /\ projects[cur].end_time = NoTime
    /\ n_items[cur] = 2
    /\ \A i \in 1..2 : Len(matches[cur][i]) = 1

\* C40: a search that found no fresh row, asked the distributor and got a good
\* response (the cache read and write not failing) leaves the cache so that, within the cache window
\* of that call, a cache read for the same (search_term, search_type) returns
\* the fresh response, also when the table held an expired row for the pair.
C40_RefreshAfterExpiry ==
    (/\ call.op = "search_mouser"
     /\ call.outcome = "parts"
     /\ ~call.hit
     /\ ~call.inp.read_fails
     /\ ~call.inp.write_fails
     /\ now - call.at <= MaxAge) =>
        get_cached_response(cache, call.inp.search_term, call.inp.search_type,
                            MaxAge, now) = {call.parts}

====
